---- MODULE Spec2Model ----
(***************************************************************************)
(* RingMaster: fixed-capacity single-producer/single-consumer ring buffer  *)
(* (src/RingMaster.hh) with its adaptive spin-then-block wait layer.       *)
(*                                                                         *)
(* Every load and store of an atomic cursor, every slot access, every      *)
(* mutex and condition-variable operation is one step of the thread that   *)
(* performs it.  A slot access is not atomic: it has a begin and an end    *)
(* step, and a slot that is being written holds Torn until the write ends. *)
(***************************************************************************)
EXTENDS Integers, Sequences, FiniteSets, TLC

VARIABLES
    Capacity,       \* template parameter Capacity, fixed at construction
    head,           \* head_.var
    tail,           \* tail_.var
    buffer,         \* buffer_[Capacity]
    cv_mutex,       \* cv_mutex_: "free", "prod" or "cons"
    spin_counter,   \* the caller's spin counters, one per thread
    block_counter,  \* the caller's block counters, one per thread
    prod,           \* the producer thread: position and locals
    cons,           \* the consumer thread: position and locals
    pushed,         \* history: values accepted by successful pushes
    popped,         \* history: values delivered by successful pops
    harness,        \* the test driver of a scenario: its phase and what it recorded
    obs             \* a thread calling isEmpty / isFull / size / clear

vars == <<obs, harness, Capacity, head, tail, buffer, cv_mutex, spin_counter, block_counter,
          prod, cons, pushed, popped>>

-----------------------------------------------------------------------------
(* Bounds of the model *)

\* width of a cursor in bits (size_t scaled down); arithmetic wraps at 2^CursorBits
CursorBits == 3
\* number of pushes the producer may have accepted
MaxPush == 4
\* spin_limit arguments are 0..MaxSpinLimit
MaxSpinLimit == 2
\* remove(n) arguments are 0..MaxRemove
MaxRemove == 2
\* spurious wake-ups a single push_wait / pop_wait call may suffer
MaxSpuriousWakes == 1
\* CPUID reports a CLFLUSH line size of 0..MaxClflush units of 8 bytes
MaxClflush == 2
\* a long spin phase reaches up to MaxYields multiples of 1024 failed attempts
MaxYields == 2
\* a long-running buffer is observed from at most WrapRoom steps before a cursor wraps
WrapRoom == 2
\* CACHE_LINE_SIZE is one of 1..MaxLineSize
MaxLineSize == 32
\* an instance is placed at one of the first MaxBase + 1 addresses its alignment allows
MaxBase == 2

Modulus == 2 ^ CursorBits
Capacities == {1, 2, 4}
SpinLimits == 0 .. MaxSpinLimit
\* content of a slot that was never assigned
Unset == 0
\* content of a slot whose assignment is in progress
Torn == -1

-----------------------------------------------------------------------------
(* size_t arithmetic and the expressions of the code *)

Add(a, b) == (a + b) % Modulus
Sub(a, b) == (a - b + Modulus) % Modulus

RECURSIVE BitAnd(_, _)
BitAnd(a, b) ==
    IF a = 0 \/ b = 0 THEN 0
    ELSE (IF a % 2 = 1 /\ b % 2 = 1 THEN 1 ELSE 0) + 2 * BitAnd(a \div 2, b \div 2)

\* static_assert((Capacity & (Capacity - 1)) == 0, "Capacity must be power of two")
StaticAssert(cap) == BitAnd(cap, Sub(cap, 1)) = 0

\* static constexpr size_t Mask = Capacity - 1
Mask(cap) == Sub(cap, 1)

\* buffer_[cursor & Mask]
SlotIndex(cursor, cap) == BitAnd(cursor, Mask(cap))

\* push: head - tail >= Capacity
PushFullOffByOne(h, t, cap) == Sub(h, t) > cap
\* a push that keeps one slot free
PushFullKeepsOneFree(h, t, cap) == Sub(h, t) >= cap - 1
\* a full test that compares the cursors without the wrapping subtraction
PushFullUnwrapped(h, t, cap) == h >= t + cap
PushFull(h, t, cap) == Sub(h, t) >= cap

\* pop: head == tail
PopEmptyNever(h, t) == FALSE
PopEmpty(h, t) == h = t

\* remove: toRemove = (n > avail) ? avail : n, avail = head - tail
RemoveCountUnclamped(n, h, t) == n
RemoveCount(n, h, t) ==
    LET avail == Sub(h, t) IN IF n > avail THEN avail ELSE n

\* isFull / isEmpty / size on a snapshot
IsFullStrict(h, t, cap) == Sub(h, t) > cap
IsFullOf(h, t, cap) == Sub(h, t) >= cap
\* an isEmpty that takes a buffer holding one element for empty
IsEmptyLoose(h, t) == Sub(h, t) <= 1
IsEmptyOf(h, t) == h = t
SizeOf(h, t) == Sub(h, t)

\* push_wait / pop_wait after a failed attempt, local_spins already incremented
YieldMask == 1023
SpinBranchEarly(local_spins, spin_limit) ==
    IF local_spins + 1 < spin_limit
    THEN IF BitAnd(local_spins, YieldMask) = 0 THEN "yield" ELSE "continue"
    ELSE "block"
SpinBranch(local_spins, spin_limit) ==
    IF local_spins < spin_limit
    THEN IF BitAnd(local_spins, YieldMask) = 0 THEN "yield" ELSE "continue"
    ELSE "block"

-----------------------------------------------------------------------------
(* Threads *)

IdleThread ==
    [pc |-> "idle", op |-> "none", ret |-> "none",
     head |-> 0, tail |-> 0,          \* locals of push / pop / remove
     q_head |-> 0,                    \* local head of the wait predicate
     value |-> 0,                     \* push: the caller's value; pop: out
     rvalue |-> FALSE,                \* push: the argument is an rvalue
     moved |-> FALSE,                 \* the caller's value was moved from
     raced |-> FALSE,                 \* push: another assignment overlaps this one
     n |-> 0,                         \* remove: n, then toRemove
     count |-> 0,                     \* remove: the count returned
     local_spins |-> 0, spin_limit |-> 0,
     counters |-> FALSE,              \* spin_counter / block_counter supplied
     yields |-> 0,                    \* std::this_thread::yield() calls of the call
     blocks |-> 0,                    \* entries into the condition-wait of the call
     succ |-> 0,                      \* successful push / pop attempts of the call
     fails |-> 0,                     \* failed attempts of the call
     pre |-> 0,                       \* own cursor when the call began
     pre_spin |-> 0,                  \* *spin_counter when the call began
     pre_block |-> 0]                 \* *block_counter when the call began

\* a thread that calls the status queries or clear, before its first call
IdleObserver ==
    [pc |-> "idle", op |-> "none",
     who |-> "obs",                   \* the thread that makes the call
     head |-> 0,                      \* local head of isEmpty / isFull / size
     flag |-> FALSE,                  \* what isEmpty / isFull returned
     count |-> 0,                     \* what size returned
     seen |-> {}]                     \* <<head_, tail_>> at and since the head load

\* RingMaster() = default: head_{0}, tail_{0}; no thread has called anything
Members ==
    /\ head = 0
    /\ tail = 0
    /\ buffer = [i \in 0 .. Capacity - 1 |-> Unset]
    /\ cv_mutex = "free"
    /\ spin_counter = [t \in {"prod", "cons"} |-> 0]
    /\ block_counter = [t \in {"prod", "cons"} |-> 0]
    /\ prod = IdleThread
    /\ cons = IdleThread
    /\ obs = IdleObserver
    /\ pushed = <<>>
    /\ popped = <<>>

\* an instance of RingMaster<Q_TYPE, Capacity>, Capacity a power of two
Constructed ==
    /\ Capacity \in Capacities
    /\ Members

\* no scenario: the two threads call what they like
NoHarness == [phase |-> "free", n |-> 0, k |-> 0, tail |-> 0, live |-> <<>>, at |-> 0]

Init ==
    /\ Constructed
    /\ harness = NoHarness

\* the values the producer passes are the sequence numbers 1, 2, 3, ... of the
\* demo harness (for (i...) push(i)): the buffer never inspects a value, and
\* distinct values make every loss, duplication and reordering visible
NextValues == {Len(pushed) + 1}

\* a cursor store is seen by a status query that has loaded head and not yet tail
Observe(o, h, t) ==
    IF o.pc = "query_load_tail" THEN [o EXCEPT !.seen = @ \cup {<<h, t>>}] ELSE o

\* a call begins: the per-call fields are reset
Begin(t, op, start) ==
    [t EXCEPT !.pc = start, !.op = op, !.ret = "none", !.local_spins = 0, !.count = 0,
              !.rvalue = FALSE, !.moved = FALSE, !.raced = FALSE,
              !.yields = 0, !.blocks = 0, !.succ = 0, !.fails = 0]

\* condition_variable::notify_one: wakes the thread blocked on it, if there is one
NotifyOne(waiter) ==
    IF waiter.pc = "blocked" THEN [waiter EXCEPT !.pc = "woken"] ELSE waiter

\* a call returns ret: its locals and arguments are dead
Return(t, ret) ==
    [t EXCEPT !.pc = "idle", !.ret = ret, !.head = 0, !.tail = 0, !.q_head = 0,
              !.n = 0, !.local_spins = 0, !.spin_limit = 0, !.counters = FALSE,
              !.yields = 0, !.blocks = 0, !.fails = 0]

\* a push / pop attempt has just returned ok to its caller:
\* a plain push / pop returns it; push_wait / pop_wait go on to publish their
\* statistics and to notify after a success, and spin or block after a failure
AfterAttemptReturnsOnFail(t, ok, retry) ==
    IF t.op \in {"push", "pop"} \/ ~ok
    THEN [Return(t, IF ok THEN "true" ELSE "false")
             EXCEPT !.succ = IF ok THEN @ + 1 ELSE @]
    ELSE [t EXCEPT !.pc = "notify", !.head = 0, !.tail = 0, !.succ = @ + 1]
\* an attempt counted as a spin before it is known to have failed
AfterAttemptCountsSuccess(t, ok, retry) ==
    IF t.op \in {"push", "pop"}
    THEN [Return(t, IF ok THEN "true" ELSE "false")
             EXCEPT !.succ = IF ok THEN @ + 1 ELSE @]
    ELSE IF ok
    THEN [t EXCEPT !.pc = IF t.counters THEN "stats" ELSE "notify",
                   !.local_spins = @ + 1,
                   !.head = 0, !.tail = 0, !.succ = @ + 1]
    ELSE LET spins == t.local_spins + 1
             branch == SpinBranch(spins, t.spin_limit)
         IN  [t EXCEPT !.pc = IF branch = "block"
                               THEN (IF t.counters THEN "block_count" ELSE "lock")
                               ELSE retry,
                       !.local_spins = spins,
                       !.yields = IF branch = "yield" THEN @ + 1 ELSE @,
                       !.head = 0, !.tail = 0, !.fails = @ + 1]
\* a call with counters supplied gives up spinning one failed attempt earlier
AfterAttemptCountedBlocksEarly(t, ok, retry) ==
    IF t.op \in {"push", "pop"}
    THEN [Return(t, IF ok THEN "true" ELSE "false")
             EXCEPT !.succ = IF ok THEN @ + 1 ELSE @]
    ELSE IF ok
    THEN [t EXCEPT !.pc = IF t.counters /\ t.local_spins # 0 THEN "stats" ELSE "notify",
                   !.head = 0, !.tail = 0, !.succ = @ + 1]
    ELSE LET spins == t.local_spins + 1
             branch == SpinBranch(IF t.counters THEN spins + 1 ELSE spins, t.spin_limit)
         IN  [t EXCEPT !.pc = IF branch = "block"
                               THEN (IF t.counters THEN "block_count" ELSE "lock")
                               ELSE retry,
                       !.local_spins = spins,
                       !.yields = IF branch = "yield" THEN @ + 1 ELSE @,
                       !.head = 0, !.tail = 0, !.fails = @ + 1]
AfterAttempt(t, ok, retry) ==
    IF t.op \in {"push", "pop"}
    THEN [Return(t, IF ok THEN "true" ELSE "false")
             EXCEPT !.succ = IF ok THEN @ + 1 ELSE @]
    ELSE IF ok
    THEN [t EXCEPT !.pc = IF t.counters /\ t.local_spins # 0 THEN "stats" ELSE "notify",
                   !.head = 0, !.tail = 0, !.succ = @ + 1]
    ELSE LET spins == t.local_spins + 1
             branch == SpinBranch(spins, t.spin_limit)
         IN  [t EXCEPT !.pc = IF branch = "block"
                               THEN (IF t.counters THEN "block_count" ELSE "lock")
                               ELSE retry,
                       !.local_spins = spins,
                       !.yields = IF branch = "yield" THEN @ + 1 ELSE @,
                       !.head = 0, !.tail = 0, !.fails = @ + 1]

-----------------------------------------------------------------------------
(* Producer: push (RingMaster.hh 134-147) *)

\* the producer thread calls push(x) with x a variable that holds v, as the
\* demo does (buf.push(i)): ENQ_TYPE is deduced as an lvalue reference
CallPush(v) ==
    /\ prod.pc = "idle"
    /\ Len(pushed) < MaxPush
    /\ prod' = [Begin(prod, "push", "push_load_head") EXCEPT !.value = v, !.pre = head]
    /\ UNCHANGED <<obs, harness, Capacity, head, tail, buffer, cv_mutex, spin_counter,
                   block_counter, cons, pushed, popped>>

\* the producer thread calls push(std::move(x)) with x a variable that holds v:
\* ENQ_TYPE is deduced as a non-reference type and value is an rvalue
CallPushRvalue(v) ==
    /\ prod.pc = "idle"
    /\ Len(pushed) < MaxPush
    /\ prod' = [Begin(prod, "push", "push_load_head")
                   EXCEPT !.value = v, !.rvalue = TRUE, !.pre = head]
    /\ UNCHANGED <<obs, harness, Capacity, head, tail, buffer, cv_mutex, spin_counter,
                   block_counter, cons, pushed, popped>>

\* the thread other is in the middle of its assignment to the slot of cursor h:
\* an assignment to that slot that begins now overlaps it, and the two are a
\* data race
Overlaps(other, h) ==
    /\ other.pc = "push_writing"
    /\ SlotIndex(other.head, Capacity) = SlotIndex(h, Capacity)

\* const size_t head = head_.var.load(relaxed)
PushLoadHead ==
    /\ prod.pc = "push_load_head"
    /\ prod' = [prod EXCEPT !.pc = "push_load_tail", !.head = head]
    /\ UNCHANGED <<obs, harness, Capacity, head, tail, buffer, cv_mutex, spin_counter,
                   block_counter, cons, pushed, popped>>

\* a push that finds the buffer full and still moves the value into the slot
PushLoadTailClobber ==
    /\ prod.pc = "push_load_tail"
    /\ IF PushFull(prod.head, tail, Capacity)
       THEN /\ prod' = [AfterAttempt(prod, FALSE, "push_load_head")
                           EXCEPT !.moved = prod.rvalue]
            /\ buffer' = [buffer EXCEPT ![SlotIndex(prod.head, Capacity)] = prod.value]
       ELSE /\ prod' = [prod EXCEPT !.pc = "push_write", !.tail = tail]
            /\ UNCHANGED buffer
    /\ UNCHANGED <<obs, harness, Capacity, head, tail, cv_mutex, spin_counter,
                   block_counter, cons, pushed, popped>>

\* a push that stores head + 1 before it assigns the slot
PushLoadTailPublishFirst ==
    /\ prod.pc = "push_load_tail"
    /\ IF PushFull(prod.head, tail, Capacity)
       THEN /\ prod' = AfterAttempt(prod, FALSE, "push_load_head")
            /\ UNCHANGED head
       ELSE /\ prod' = [prod EXCEPT !.pc = "push_write", !.tail = tail]
            /\ head' = Add(prod.head, 1)
    /\ UNCHANGED <<obs, harness, Capacity, tail, buffer, cv_mutex, spin_counter,
                   block_counter, cons, pushed, popped>>

\* const size_t tail = tail_.var.load(acquire); if (head - tail >= Capacity) return false
PushLoadTail ==
    /\ prod.pc = "push_load_tail"
    /\ prod' = IF PushFull(prod.head, tail, Capacity)
               THEN AfterAttempt(prod, FALSE, "push_load_head")
               ELSE [prod EXCEPT !.pc = "push_write", !.tail = tail]
    /\ UNCHANGED <<obs, harness, Capacity, head, tail, buffer, cv_mutex, spin_counter,
                   block_counter, cons, pushed, popped>>

\* a push whose assignment also spoils the slot after its own
PushWriteBeginNeighbour ==
    /\ prod.pc = "push_write"
    /\ buffer' = [buffer EXCEPT ![SlotIndex(prod.head, Capacity)] = Torn,
                                ![SlotIndex(Add(prod.head, 1), Capacity)] = Torn]
    /\ prod' = [prod EXCEPT !.pc = "push_writing", !.moved = prod.rvalue,
                            !.raced = Overlaps(cons, prod.head)]
    /\ cons' = IF Overlaps(cons, prod.head) THEN [cons EXCEPT !.raced = TRUE] ELSE cons
    /\ UNCHANGED <<obs, harness, Capacity, head, tail, cv_mutex, spin_counter,
                   block_counter, pushed, popped>>

\* buffer_[head & Mask] = std::forward(value): the assignment begins.  It is a
\* move assignment for an rvalue argument and a copy assignment, which leaves
\* the caller's value as it was, for an lvalue argument
PushWriteBegin ==
    /\ prod.pc = "push_write"
    /\ buffer' = [buffer EXCEPT ![SlotIndex(prod.head, Capacity)] = Torn]
    /\ prod' = [prod EXCEPT !.pc = "push_writing", !.moved = prod.rvalue,
                            !.raced = Overlaps(cons, prod.head)]
    /\ cons' = IF Overlaps(cons, prod.head) THEN [cons EXCEPT !.raced = TRUE] ELSE cons
    /\ UNCHANGED <<obs, harness, Capacity, head, tail, cv_mutex, spin_counter,
                   block_counter, pushed, popped>>

\* buffer_[head & Mask] = std::forward(value): the assignment is complete.  The
\* slot holds the value, unless another thread's assignment to the same slot
\* overlapped this one: it then holds the value or an indeterminate mixture
PushWriteEnd ==
    /\ prod.pc = "push_writing"
    /\ \E outcome \in IF prod.raced THEN {prod.value, Torn} ELSE {prod.value} :
          buffer' = [buffer EXCEPT ![SlotIndex(prod.head, Capacity)] = outcome]
    /\ prod' = [prod EXCEPT !.pc = "push_store", !.raced = FALSE]
    /\ UNCHANGED <<obs, harness, Capacity, head, tail, cv_mutex, spin_counter,
                   block_counter, cons, pushed, popped>>

\* a push that publishes two slots for the one it wrote
PushStoreHeadSkipsSlot ==
    /\ prod.pc = "push_store"
    /\ head' = Add(prod.head, 2)
    /\ pushed' = Append(pushed, prod.value)
    /\ prod' = AfterAttempt(prod, TRUE, "push_load_head")
    /\ obs' = Observe(obs, head', tail)
    /\ UNCHANGED <<harness, Capacity, tail, buffer, cv_mutex, spin_counter,
                   block_counter, cons, popped>>

\* head_.var.store(head + 1, release); return true
PushStoreHead ==
    /\ prod.pc = "push_store"
    /\ head' = Add(prod.head, 1)
    /\ pushed' = Append(pushed, prod.value)
    /\ prod' = AfterAttempt(prod, TRUE, "push_load_head")
    /\ obs' = Observe(obs, head', tail)
    /\ UNCHANGED <<harness, Capacity, tail, buffer, cv_mutex, spin_counter,
                   block_counter, cons, popped>>

-----------------------------------------------------------------------------
(* Consumer: pop (RingMaster.hh 157-170) *)

\* the consumer thread calls pop(out)
CallPop ==
    /\ cons.pc = "idle"
    /\ cons' = [Begin(cons, "pop", "pop_load_tail") EXCEPT !.pre = tail]
    /\ UNCHANGED <<obs, harness, Capacity, head, tail, buffer, cv_mutex, spin_counter,
                   block_counter, prod, pushed, popped>>

\* const size_t tail = tail_.var.load(relaxed)
PopLoadTail ==
    /\ cons.pc = "pop_load_tail"
    /\ cons' = [cons EXCEPT !.pc = "pop_load_head", !.tail = tail]
    /\ UNCHANGED <<obs, harness, Capacity, head, tail, buffer, cv_mutex, spin_counter,
                   block_counter, prod, pushed, popped>>

\* a pop that finds the buffer empty and still assigns out from the slot
PopLoadHeadClobber ==
    /\ cons.pc = "pop_load_head"
    /\ cons' = IF PopEmpty(head, cons.tail)
               THEN [AfterAttempt(cons, FALSE, "pop_load_tail")
                        EXCEPT !.value = buffer[SlotIndex(cons.tail, Capacity)]]
               ELSE [cons EXCEPT !.pc = "pop_read", !.head = head]
    /\ UNCHANGED <<obs, harness, Capacity, head, tail, buffer, cv_mutex, spin_counter,
                   block_counter, prod, pushed, popped>>

\* a pop that tries again until the buffer is not empty
PopLoadHeadRetry ==
    /\ cons.pc = "pop_load_head"
    /\ cons' = IF PopEmpty(head, cons.tail)
               THEN [cons EXCEPT !.pc = "pop_load_tail"]
               ELSE [cons EXCEPT !.pc = "pop_read", !.head = head]
    /\ UNCHANGED <<obs, harness, Capacity, head, tail, buffer, cv_mutex, spin_counter,
                   block_counter, prod, pushed, popped>>

\* const size_t head = head_.var.load(acquire); if (head == tail) return false
PopLoadHead ==
    /\ cons.pc = "pop_load_head"
    /\ cons' = IF PopEmpty(head, cons.tail)
               THEN AfterAttempt(cons, FALSE, "pop_load_tail")
               ELSE [cons EXCEPT !.pc = "pop_read", !.head = head]
    /\ UNCHANGED <<obs, harness, Capacity, head, tail, buffer, cv_mutex, spin_counter,
                   block_counter, prod, pushed, popped>>

\* out = std::move(buffer_[tail & Mask]): the read of the slot begins
PopReadBegin ==
    /\ cons.pc = "pop_read"
    /\ cons' = [cons EXCEPT !.pc = "pop_reading"]
    /\ UNCHANGED <<obs, harness, Capacity, head, tail, buffer, cv_mutex, spin_counter,
                   block_counter, prod, pushed, popped>>

\* out = std::move(buffer_[tail & Mask]): out holds what the slot held
PopReadEnd ==
    /\ cons.pc = "pop_reading"
    /\ cons' = [cons EXCEPT !.pc = "pop_store",
                            !.value = buffer[SlotIndex(cons.tail, Capacity)]]
    /\ UNCHANGED <<obs, harness, Capacity, head, tail, buffer, cv_mutex, spin_counter,
                   block_counter, prod, pushed, popped>>

\* tail_.var.store(tail + 1, release); return true
PopStoreTail ==
    /\ cons.pc = "pop_store"
    /\ tail' = Add(cons.tail, 1)
    /\ popped' = Append(popped, cons.value)
    /\ cons' = AfterAttempt(cons, TRUE, "pop_load_tail")
    /\ obs' = Observe(obs, head, tail')
    /\ UNCHANGED <<harness, Capacity, head, buffer, cv_mutex, spin_counter,
                   block_counter, prod, pushed>>

-----------------------------------------------------------------------------
(* Consumer: remove (RingMaster.hh 180-190) *)

\* the consumer thread calls remove(n)
CallRemove(n) ==
    /\ cons.pc = "idle"
    /\ cons' = [Begin(cons, "remove", "remove_load_tail") EXCEPT !.n = n, !.pre = tail]
    /\ UNCHANGED <<obs, harness, Capacity, head, tail, buffer, cv_mutex, spin_counter,
                   block_counter, prod, pushed, popped>>

\* const size_t tail = tail_.var.load(relaxed)
RemoveLoadTail ==
    /\ cons.pc = "remove_load_tail"
    /\ cons' = [cons EXCEPT !.pc = "remove_load_head", !.tail = tail]
    /\ UNCHANGED <<obs, harness, Capacity, head, tail, buffer, cv_mutex, spin_counter,
                   block_counter, prod, pushed, popped>>

\* const size_t head = head_.var.load(acquire); avail; toRemove;
\* if (!toRemove) return toRemove
RemoveLoadHead ==
    /\ cons.pc = "remove_load_head"
    /\ LET toRemove == RemoveCount(cons.n, head, cons.tail)
       IN  cons' = IF toRemove # 0
                   THEN [cons EXCEPT !.pc = "remove_store", !.head = head, !.n = toRemove]
                   ELSE [Return(cons, "count") EXCEPT !.count = 0]
    /\ UNCHANGED <<obs, harness, Capacity, head, tail, buffer, cv_mutex, spin_counter,
                   block_counter, prod, pushed, popped>>

\* a remove that stores the advanced cursor into head_
RemoveStoreHead ==
    /\ cons.pc = "remove_store"
    /\ head' = Add(cons.tail, cons.n)
    /\ cons' = [Return(cons, "count") EXCEPT !.count = cons.n]
    /\ obs' = Observe(obs, head', tail)
    /\ UNCHANGED <<harness, Capacity, tail, buffer, cv_mutex, spin_counter,
                   block_counter, prod, pushed, popped>>

\* tail_.var.store(tail + toRemove, release); return toRemove
RemoveStoreTail ==
    /\ cons.pc = "remove_store"
    /\ tail' = Add(cons.tail, cons.n)
    /\ cons' = [Return(cons, "count") EXCEPT !.count = cons.n]
    /\ obs' = Observe(obs, head, tail')
    /\ UNCHANGED <<harness, Capacity, head, buffer, cv_mutex, spin_counter,
                   block_counter, prod, pushed, popped>>

-----------------------------------------------------------------------------
(* Producer: push_wait (RingMaster.hh 259-302) *)

\* the producer thread calls push_wait(v, spin_limit, spin_counter, block_counter);
\* counters tells whether the two counters are supplied or null
CallPushWait(v, limit, counters) ==
    /\ prod.pc = "idle"
    /\ Len(pushed) < MaxPush
    /\ prod' = [Begin(prod, "push_wait", "push_load_head")
                   EXCEPT !.value = v, !.pre = head, !.spin_limit = limit,
                          !.counters = counters,
                          !.pre_spin = spin_counter["prod"],
                          !.pre_block = block_counter["prod"]]
    /\ UNCHANGED <<obs, harness, Capacity, head, tail, buffer, cv_mutex, spin_counter,
                   block_counter, cons, pushed, popped>>

\* spin_counter->fetch_add(local_spins)
PushWaitStats ==
    /\ prod.pc = "stats" /\ prod.op = "push_wait"
    /\ spin_counter' = [spin_counter EXCEPT !["prod"] = Add(@, prod.local_spins)]
    /\ prod' = [prod EXCEPT !.pc = "notify"]
    /\ UNCHANGED <<obs, harness, Capacity, head, tail, buffer, cv_mutex, block_counter,
                   cons, pushed, popped>>

\* a push_wait that returns without notify_one
PushWaitNotifySkipped ==
    /\ prod.pc = "notify" /\ prod.op = "push_wait"
    /\ prod' = Return(prod, "void")
    /\ UNCHANGED <<obs, harness, Capacity, head, tail, buffer, cv_mutex, spin_counter,
                   block_counter, cons, pushed, popped>>

\* not_empty_cv_.notify_one(); return
PushWaitNotify ==
    /\ prod.pc = "notify" /\ prod.op = "push_wait"
    /\ cons' = NotifyOne(cons)
    /\ prod' = Return(prod, "void")
    /\ UNCHANGED <<obs, harness, Capacity, head, tail, buffer, cv_mutex, spin_counter,
                   block_counter, pushed, popped>>

\* if (block_counter) block_counter->fetch_add(1)
PushWaitBlockCount ==
    /\ prod.pc = "block_count" /\ prod.op = "push_wait"
    /\ block_counter' = [block_counter EXCEPT !["prod"] = Add(@, 1)]
    /\ prod' = [prod EXCEPT !.pc = "lock"]
    /\ UNCHANGED <<obs, harness, Capacity, head, tail, buffer, cv_mutex, spin_counter,
                   cons, pushed, popped>>

\* std::unique_lock<std::mutex> lock(cv_mutex_)
PushWaitLock ==
    /\ prod.pc = "lock" /\ prod.op = "push_wait"
    /\ cv_mutex = "free"
    /\ cv_mutex' = "prod"
    /\ prod' = [prod EXCEPT !.pc = "pred_load_head"]
    /\ UNCHANGED <<obs, harness, Capacity, head, tail, buffer, spin_counter, block_counter,
                   cons, pushed, popped>>

\* the wait predicate !isFull(): const size_t head = head_.var.load(acquire)
PushWaitPredLoadHead ==
    /\ prod.pc = "pred_load_head" /\ prod.op = "push_wait"
    /\ prod' = [prod EXCEPT !.pc = "pred_load_tail", !.q_head = head]
    /\ UNCHANGED <<obs, harness, Capacity, head, tail, buffer, cv_mutex, spin_counter,
                   block_counter, cons, pushed, popped>>

\* a wait that does not evaluate its predicate again after a wake-up
PushWaitPredLoadTailNoRecheck ==
    /\ prod.pc = "pred_load_tail" /\ prod.op = "push_wait"
    /\ prod' = [prod EXCEPT !.pc = IF prod.blocks >= 1
                                      \/ ~IsFullOf(prod.q_head, tail, Capacity)
                                   THEN "unlock" ELSE "wait",
                            !.q_head = 0]
    /\ UNCHANGED <<obs, harness, Capacity, head, tail, buffer, cv_mutex, spin_counter,
                   block_counter, cons, pushed, popped>>

\* the wait predicate !isFull(): tail load and the comparison; the wait is over
\* when the predicate holds, else the thread goes on to block
PushWaitPredLoadTail ==
    /\ prod.pc = "pred_load_tail" /\ prod.op = "push_wait"
    /\ prod' = [prod EXCEPT !.pc = IF ~IsFullOf(prod.q_head, tail, Capacity)
                                   THEN "unlock" ELSE "wait",
                            !.q_head = 0]
    /\ UNCHANGED <<obs, harness, Capacity, head, tail, buffer, cv_mutex, spin_counter,
                   block_counter, cons, pushed, popped>>

\* condition_variable::wait(lock): releases the mutex and blocks, atomically
PushWaitBlock ==
    /\ prod.pc = "wait" /\ prod.op = "push_wait"
    /\ cv_mutex' = "free"
    /\ prod' = [prod EXCEPT !.pc = "blocked", !.blocks = @ + 1]
    /\ UNCHANGED <<obs, harness, Capacity, head, tail, buffer, spin_counter, block_counter,
                   cons, pushed, popped>>

\* condition_variable::wait(lock): the woken thread takes the mutex again
PushWaitReacquire ==
    /\ prod.pc = "woken" /\ prod.op = "push_wait"
    /\ cv_mutex = "free"
    /\ cv_mutex' = "prod"
    /\ prod' = [prod EXCEPT !.pc = "pred_load_head"]
    /\ UNCHANGED <<obs, harness, Capacity, head, tail, buffer, spin_counter, block_counter,
                   cons, pushed, popped>>

\* a push_wait that keeps its local spin count across the condition-wait
PushWaitUnlockKeepsSpins ==
    /\ prod.pc = "unlock" /\ prod.op = "push_wait"
    /\ cv_mutex' = "free"
    /\ prod' = [prod EXCEPT !.pc = "push_load_head"]
    /\ UNCHANGED <<obs, harness, Capacity, head, tail, buffer, spin_counter, block_counter,
                   cons, pushed, popped>>

\* local_spins = 0; the lock goes out of scope; next iteration of while (true)
PushWaitUnlock ==
    /\ prod.pc = "unlock" /\ prod.op = "push_wait"
    /\ cv_mutex' = "free"
    /\ prod' = [prod EXCEPT !.pc = "push_load_head", !.local_spins = 0]
    /\ UNCHANGED <<obs, harness, Capacity, head, tail, buffer, spin_counter, block_counter,
                   cons, pushed, popped>>

\* a spurious wake-up of the producer blocked on not_full_cv_
PushWaitSpuriousWake ==
    /\ prod.pc = "blocked"
    /\ prod.blocks <= MaxSpuriousWakes
    /\ prod' = [prod EXCEPT !.pc = "woken"]
    /\ UNCHANGED <<obs, harness, Capacity, head, tail, buffer, cv_mutex, spin_counter,
                   block_counter, cons, pushed, popped>>

-----------------------------------------------------------------------------
(* Consumer: pop_wait (RingMaster.hh 316-343) *)

\* the consumer thread calls pop_wait(out, spin_limit, spin_counter, block_counter)
CallPopWait(limit, counters) ==
    /\ cons.pc = "idle"
    /\ cons' = [Begin(cons, "pop_wait", "pop_load_tail")
                   EXCEPT !.pre = tail, !.spin_limit = limit, !.counters = counters,
                          !.pre_spin = spin_counter["cons"],
                          !.pre_block = block_counter["cons"]]
    /\ UNCHANGED <<obs, harness, Capacity, head, tail, buffer, cv_mutex, spin_counter,
                   block_counter, prod, pushed, popped>>

\* spin_counter->fetch_add(local_spins)
PopWaitStats ==
    /\ cons.pc = "stats" /\ cons.op = "pop_wait"
    /\ spin_counter' = [spin_counter EXCEPT !["cons"] = Add(@, cons.local_spins)]
    /\ cons' = [cons EXCEPT !.pc = "notify"]
    /\ UNCHANGED <<obs, harness, Capacity, head, tail, buffer, cv_mutex, block_counter,
                   prod, pushed, popped>>

\* not_full_cv_.notify_one(); return true
PopWaitNotify ==
    /\ cons.pc = "notify" /\ cons.op = "pop_wait"
    /\ prod' = NotifyOne(prod)
    /\ cons' = Return(cons, "true")
    /\ UNCHANGED <<obs, harness, Capacity, head, tail, buffer, cv_mutex, spin_counter,
                   block_counter, pushed, popped>>

\* if (block_counter) block_counter->fetch_add(1)
PopWaitBlockCount ==
    /\ cons.pc = "block_count" /\ cons.op = "pop_wait"
    /\ block_counter' = [block_counter EXCEPT !["cons"] = Add(@, 1)]
    /\ cons' = [cons EXCEPT !.pc = "lock"]
    /\ UNCHANGED <<obs, harness, Capacity, head, tail, buffer, cv_mutex, spin_counter,
                   prod, pushed, popped>>

\* std::unique_lock<std::mutex> lock(cv_mutex_)
PopWaitLock ==
    /\ cons.pc = "lock" /\ cons.op = "pop_wait"
    /\ cv_mutex = "free"
    /\ cv_mutex' = "cons"
    /\ cons' = [cons EXCEPT !.pc = "pred_load_head"]
    /\ UNCHANGED <<obs, harness, Capacity, head, tail, buffer, spin_counter, block_counter,
                   prod, pushed, popped>>

\* the wait predicate !isEmpty(): const size_t head = head_.var.load(acquire)
PopWaitPredLoadHead ==
    /\ cons.pc = "pred_load_head" /\ cons.op = "pop_wait"
    /\ cons' = [cons EXCEPT !.pc = "pred_load_tail", !.q_head = head]
    /\ UNCHANGED <<obs, harness, Capacity, head, tail, buffer, cv_mutex, spin_counter,
                   block_counter, prod, pushed, popped>>

\* the wait predicate !isEmpty(): tail load and the comparison
PopWaitPredLoadTail ==
    /\ cons.pc = "pred_load_tail" /\ cons.op = "pop_wait"
    /\ cons' = [cons EXCEPT !.pc = IF ~IsEmptyOf(cons.q_head, tail)
                                   THEN "unlock" ELSE "wait",
                            !.q_head = 0]
    /\ UNCHANGED <<obs, harness, Capacity, head, tail, buffer, cv_mutex, spin_counter,
                   block_counter, prod, pushed, popped>>

\* condition_variable::wait(lock): releases the mutex and blocks, atomically
PopWaitBlock ==
    /\ cons.pc = "wait" /\ cons.op = "pop_wait"
    /\ cv_mutex' = "free"
    /\ cons' = [cons EXCEPT !.pc = "blocked", !.blocks = @ + 1]
    /\ UNCHANGED <<obs, harness, Capacity, head, tail, buffer, spin_counter, block_counter,
                   prod, pushed, popped>>

\* condition_variable::wait(lock): the woken thread takes the mutex again
PopWaitReacquire ==
    /\ cons.pc = "woken" /\ cons.op = "pop_wait"
    /\ cv_mutex = "free"
    /\ cv_mutex' = "cons"
    /\ cons' = [cons EXCEPT !.pc = "pred_load_head"]
    /\ UNCHANGED <<obs, harness, Capacity, head, tail, buffer, spin_counter, block_counter,
                   prod, pushed, popped>>

\* local_spins = 0; the lock goes out of scope; next iteration of while (true)
PopWaitUnlock ==
    /\ cons.pc = "unlock" /\ cons.op = "pop_wait"
    /\ cv_mutex' = "free"
    /\ cons' = [cons EXCEPT !.pc = "pop_load_tail", !.local_spins = 0]
    /\ UNCHANGED <<obs, harness, Capacity, head, tail, buffer, spin_counter, block_counter,
                   prod, pushed, popped>>

\* a spurious wake-up of the consumer blocked on not_empty_cv_
PopWaitSpuriousWake ==
    /\ cons.pc = "blocked"
    /\ cons.blocks <= MaxSpuriousWakes
    /\ cons' = [cons EXCEPT !.pc = "woken"]
    /\ UNCHANGED <<obs, harness, Capacity, head, tail, buffer, cv_mutex, spin_counter,
                   block_counter, prod, pushed, popped>>

-----------------------------------------------------------------------------
(* Status queries: isEmpty, isFull, size (RingMaster.hh 212-243) *)

Queries == {"isEmpty", "isFull", "size"}
Callers == {"prod", "cons", "obs"}

\* the thread who is inside a status query or clear: it makes no other call
InQuery(who) == obs.pc # "idle" /\ obs.who = who

\* thread who calls isEmpty(), isFull() or size(); the producer and the consumer
\* thread call it between two of their own operations
CallQuery(who, q) ==
    /\ obs.pc = "idle"
    /\ who = "prod" => prod.pc = "idle"
    /\ who = "cons" => cons.pc = "idle"
    /\ obs' = [IdleObserver EXCEPT !.pc = "query_load_head", !.op = q, !.who = who]
    /\ UNCHANGED <<harness, Capacity, head, tail, buffer, cv_mutex, spin_counter,
                   block_counter, prod, cons, pushed, popped>>

\* const size_t head = head_.var.load(acquire)
QueryLoadHead ==
    /\ obs.pc = "query_load_head"
    /\ obs' = [obs EXCEPT !.pc = "query_load_tail", !.head = head,
                          !.seen = {<<head, tail>>}]
    /\ UNCHANGED <<harness, Capacity, head, tail, buffer, cv_mutex, spin_counter,
                   block_counter, prod, cons, pushed, popped>>

\* const size_t tail = tail_.var.load(acquire);
\* return head == tail / head - tail >= Capacity / head - tail
QueryLoadTail ==
    /\ obs.pc = "query_load_tail"
    /\ obs' = [obs EXCEPT
                 !.pc = "idle", !.head = 0,
                 !.flag = CASE obs.op = "isEmpty" -> IsEmptyOf(obs.head, tail)
                            [] obs.op = "isFull" -> IsFullOf(obs.head, tail, Capacity)
                            [] OTHER -> FALSE,
                 !.count = IF obs.op = "size" THEN SizeOf(obs.head, tail) ELSE 0]
    /\ UNCHANGED <<harness, Capacity, head, tail, buffer, cv_mutex, spin_counter,
                   block_counter, prod, cons, pushed, popped>>

-----------------------------------------------------------------------------
(* clear (RingMaster.hh 199-202) *)

\* a thread calls clear()
CallClear ==
    /\ obs.pc = "idle"
    /\ obs' = [IdleObserver EXCEPT !.pc = "clear_store_head", !.op = "clear"]
    /\ UNCHANGED <<harness, Capacity, head, tail, buffer, cv_mutex, spin_counter,
                   block_counter, prod, cons, pushed, popped>>

\* head_.var.store(0, relaxed)
ClearStoreHead ==
    /\ obs.pc = "clear_store_head"
    /\ head' = 0
    /\ obs' = [obs EXCEPT !.pc = "clear_store_tail"]
    /\ UNCHANGED <<harness, Capacity, tail, buffer, cv_mutex, spin_counter,
                   block_counter, prod, cons, pushed, popped>>

\* a clear that leaves tail_ as it is
ClearStoreTailSkipped ==
    /\ obs.pc = "clear_store_tail"
    /\ obs' = [obs EXCEPT !.pc = "idle"]
    /\ UNCHANGED <<harness, Capacity, head, tail, buffer, cv_mutex, spin_counter,
                   block_counter, prod, cons, pushed, popped>>

\* tail_.var.store(0, relaxed)
ClearStoreTail ==
    /\ obs.pc = "clear_store_tail"
    /\ tail' = 0
    /\ obs' = [obs EXCEPT !.pc = "idle"]
    /\ UNCHANGED <<harness, Capacity, head, buffer, cv_mutex, spin_counter,
                   block_counter, prod, cons, pushed, popped>>

-----------------------------------------------------------------------------
(* The steps of each thread *)

PushSteps ==
    \/ PushLoadHead
    \/ PushLoadTail
    \/ PushWriteBegin
    \/ PushWriteEnd
    \/ PushStoreHead

PopSteps ==
    \/ PopLoadTail
    \/ PopLoadHead
    \/ PopReadBegin
    \/ PopReadEnd
    \/ PopStoreTail

RemoveSteps ==
    \/ RemoveLoadTail
    \/ RemoveLoadHead
    \/ RemoveStoreTail

PushWaitSteps ==
    \/ PushWaitStats
    \/ PushWaitNotify
    \/ PushWaitBlockCount
    \/ PushWaitLock
    \/ PushWaitPredLoadHead
    \/ PushWaitPredLoadTail
    \/ PushWaitBlock
    \/ PushWaitReacquire
    \/ PushWaitUnlock

PopWaitSteps ==
    \/ PopWaitStats
    \/ PopWaitNotify
    \/ PopWaitBlockCount
    \/ PopWaitLock
    \/ PopWaitPredLoadHead
    \/ PopWaitPredLoadTail
    \/ PopWaitBlock
    \/ PopWaitReacquire
    \/ PopWaitUnlock

-----------------------------------------------------------------------------
(* One producer (push, push_wait) and one consumer (pop, pop_wait, remove) *)

Next ==
    \/ \E v \in NextValues : CallPush(v)
    \/ \E v \in NextValues : CallPushRvalue(v)
    \/ \E v \in NextValues, l \in SpinLimits : CallPushWait(v, l, FALSE)
    \/ PushSteps
    \/ PushWaitNotify
    \/ PushWaitLock
    \/ PushWaitPredLoadHead
    \/ PushWaitPredLoadTail
    \/ PushWaitBlock
    \/ PushWaitReacquire
    \/ PushWaitUnlock
    \/ PushWaitSpuriousWake
    \/ CallPop
    \/ \E l \in SpinLimits : CallPopWait(l, FALSE)
    \/ \E n \in 0 .. MaxRemove : CallRemove(n)
    \/ PopSteps
    \/ PopWaitNotify
    \/ PopWaitLock
    \/ PopWaitPredLoadHead
    \/ PopWaitPredLoadTail
    \/ PopWaitBlock
    \/ PopWaitReacquire
    \/ PopWaitUnlock
    \/ PopWaitSpuriousWake
    \/ RemoveSteps

Spec == Init /\ [][Next]_vars

-----------------------------------------------------------------------------
(* One producer calling push, one consumer calling pop *)

NextFifo ==
    \/ \E v \in NextValues : CallPush(v)
    \/ PushLoadHead
    \/ PushLoadTail
    \/ PushWriteBegin
    \/ PushWriteEnd
    \/ PushStoreHead
    \/ CallPop
    \/ PopLoadTail
    \/ PopLoadHead
    \/ PopReadBegin
    \/ PopReadEnd
    \/ PopStoreTail

SpecFifo == Init /\ [][NextFifo]_vars

-----------------------------------------------------------------------------
(* The demo (tools/cacheLineSize.cc): the producer pushes i = 0, 1, ... and  *)
(* retries each push until it succeeds; the consumer pops until it has       *)
(* received as many values.  The demo's 100 values and capacity 8 are scaled *)
(* to MaxPush values and the capacities of the model.  Each thread is        *)
(* scheduled fairly.                                                         *)

\* for (int i = 0; i < 100; ++i): the values to push
Items == MaxPush

\* for (i ...) while (!buf.push(i)) ;
ProducerDemo ==
    \/ (Len(pushed) < Items /\ CallPush(Len(pushed)))
    \/ PushSteps

\* while (count < 100) if (buf.pop(value)) ++count;
ConsumerDemo ==
    \/ (Len(popped) < Items /\ CallPop)
    \/ PopSteps

NextDemo ==
    \/ ProducerDemo
    \/ ConsumerDemo

SpecDemo ==
    /\ Init
    /\ [][NextDemo]_vars
    /\ WF_vars(ProducerDemo)
    /\ WF_vars(ConsumerDemo)

-----------------------------------------------------------------------------
(* push_wait against pop_wait: the consumer asks for as many elements as the *)
(* producer supplies.  Each thread is scheduled fairly; a spurious wake-up   *)
(* may happen and is never owed.                                             *)

ProducerWaitSteps ==
    \/ PushSteps
    \/ PushWaitNotify
    \/ PushWaitLock
    \/ PushWaitPredLoadHead
    \/ PushWaitPredLoadTail
    \/ PushWaitBlock
    \/ PushWaitReacquire
    \/ PushWaitUnlock

ConsumerWaitSteps ==
    \/ PopSteps
    \/ PopWaitNotify
    \/ PopWaitLock
    \/ PopWaitPredLoadHead
    \/ PopWaitPredLoadTail
    \/ PopWaitBlock
    \/ PopWaitReacquire
    \/ PopWaitUnlock

\* for (i ...) buf.push_wait(i)
ProducerWaitLoop ==
    \/ \E v \in NextValues, l \in SpinLimits : CallPushWait(v, l, FALSE)
    \/ ProducerWaitSteps

\* for (i ...) buf.pop_wait(out)
ConsumerWaitLoop ==
    \/ \E l \in SpinLimits : Len(popped) < MaxPush /\ CallPopWait(l, FALSE)
    \/ ConsumerWaitSteps

NextWait ==
    \/ ProducerWaitLoop
    \/ ConsumerWaitLoop
    \/ PushWaitSpuriousWake
    \/ PopWaitSpuriousWake

SpecWait ==
    /\ Init
    /\ [][NextWait]_vars
    /\ SF_vars(ProducerWaitLoop)
    /\ SF_vars(ConsumerWaitLoop)

-----------------------------------------------------------------------------
(* The producer fills the buffer with push and then calls push_wait; the    *)
(* consumer performs one plain pop once the producer is blocked.            *)

\* while (!buf.isFull()) buf.push(i++); buf.push_wait(i)
ProducerWake ==
    \/ \E v \in NextValues :
          /\ prod.op \in {"none", "push"}
          /\ Sub(head, tail) < Capacity
          /\ CallPush(v)
    \/ \E v \in NextValues, l \in SpinLimits :
          /\ prod.op = "push"
          /\ Sub(head, tail) = Capacity
          /\ CallPushWait(v, l, FALSE)
    \/ ProducerWaitSteps

\* one buf.pop(out), once the producer is blocked in push_wait
ConsumerWake ==
    \/ (cons.op = "none" /\ prod.op = "push_wait" /\ prod.pc = "blocked" /\ CallPop)
    \/ PopSteps

NextWake ==
    \/ ProducerWake
    \/ ConsumerWake
    \/ PushWaitSpuriousWake

SpecWake ==
    /\ Init
    /\ [][NextWake]_vars
    /\ SF_vars(ProducerWake)
    /\ SF_vars(ConsumerWake)

-----------------------------------------------------------------------------
(* A remove test: pushes and pops in any interleaving leave k elements in   *)
(* the buffer; with both threads idle the driver records them and picks n,  *)
(* the consumer calls remove(n), and then pops until pop returns false.     *)
(* The producer does not push again.                                        *)

InitRemove ==
    /\ Constructed
    /\ harness = [NoHarness EXCEPT !.phase = "fill"]

\* k = buf.size(), and the k elements of the buffer, oldest first
HarnessSnapshot(n) ==
    /\ harness.phase = "fill"
    /\ prod.pc = "idle" /\ cons.pc = "idle"
    /\ harness' = [phase |-> "remove", n |-> n, k |-> SizeOf(head, tail),
                   tail |-> tail,
                   live |-> [i \in 1 .. SizeOf(head, tail) |->
                               buffer[SlotIndex(Add(tail, i - 1), Capacity)]],
                   at |-> Len(popped)]
    /\ UNCHANGED <<obs, Capacity, head, tail, buffer, cv_mutex, spin_counter,
                   block_counter, prod, cons, pushed, popped>>

\* remove has returned: the driver goes on to drain
HarnessDrain ==
    /\ harness.phase = "remove"
    /\ cons.op = "remove" /\ cons.pc = "idle"
    /\ harness' = [harness EXCEPT !.phase = "drain"]
    /\ UNCHANGED <<obs, Capacity, head, tail, buffer, cv_mutex, spin_counter,
                   block_counter, prod, cons, pushed, popped>>

NextRemove ==
    \/ \E v \in NextValues : harness.phase = "fill" /\ CallPush(v)
    \/ (harness.phase = "fill" /\ CallPop)
    \/ PushSteps
    \/ PopSteps
    \/ \E n \in 0 .. MaxRemove : HarnessSnapshot(n)
    \/ (harness.phase = "remove" /\ cons.op # "remove" /\ CallRemove(harness.n))
    \/ RemoveSteps
    \/ HarnessDrain
    \/ (/\ harness.phase = "drain"
        /\ ~(cons.op = "pop" /\ cons.ret = "false")
        /\ CallPop)

SpecRemove == InitRemove /\ [][NextRemove]_vars

-----------------------------------------------------------------------------
(* push against pop, with status queries made by the producer thread, by the *)
(* consumer thread or by a third thread                                      *)

NextQuery ==
    \/ \E v \in NextValues : ~InQuery("prod") /\ CallPush(v)
    \/ PushSteps
    \/ (~InQuery("cons") /\ CallPop)
    \/ PopSteps
    \/ \E who \in Callers, q \in Queries : CallQuery(who, q)
    \/ QueryLoadHead
    \/ QueryLoadTail

SpecQuery == Init /\ [][NextQuery]_vars

-----------------------------------------------------------------------------
(* The observability counters: one thread calls the wait operation, every   *)
(* call supplying its spin_counter and block_counter, against the plain      *)
(* operation of the other thread: push_wait against pop, or pop_wait         *)
(* against push.                                                             *)

InitStats ==
    /\ Constructed
    /\ harness \in {[NoHarness EXCEPT !.phase = "push_wait"],
                    [NoHarness EXCEPT !.phase = "pop_wait"]}

NextStats ==
    \/ \E v \in NextValues, l \in SpinLimits :
          harness.phase = "push_wait" /\ CallPushWait(v, l, TRUE)
    \/ (harness.phase = "push_wait" /\ CallPop)
    \/ \E v \in NextValues : harness.phase = "pop_wait" /\ CallPush(v)
    \/ \E l \in SpinLimits :
          harness.phase = "pop_wait" /\ Len(popped) < MaxPush /\ CallPopWait(l, TRUE)
    \/ PushSteps
    \/ PushWaitSteps
    \/ PushWaitSpuriousWake
    \/ PopSteps
    \/ PopWaitSteps
    \/ PopWaitSpuriousWake

SpecStats == InitStats /\ [][NextStats]_vars

-----------------------------------------------------------------------------
(* Counters supplied or null: one thread calls the wait operation, each call *)
(* with both counters supplied or with both null, against the plain          *)
(* operation of the other thread.                                            *)

InitCounters ==
    /\ Constructed
    /\ harness \in {[NoHarness EXCEPT !.phase = "push_wait"],
                    [NoHarness EXCEPT !.phase = "pop_wait"]}

NextCounters ==
    \/ \E v \in NextValues, l \in SpinLimits, c \in BOOLEAN :
          harness.phase = "push_wait" /\ CallPushWait(v, l, c)
    \/ (harness.phase = "push_wait" /\ CallPop)
    \/ \E v \in NextValues : harness.phase = "pop_wait" /\ CallPush(v)
    \/ \E l \in SpinLimits, c \in BOOLEAN :
          harness.phase = "pop_wait" /\ Len(popped) < MaxPush /\ CallPopWait(l, c)
    \/ PushSteps
    \/ PushWaitSteps
    \/ PushWaitSpuriousWake
    \/ PopSteps
    \/ PopWaitSteps
    \/ PopWaitSpuriousWake

SpecCounters == InitCounters /\ [][NextCounters]_vars

-----------------------------------------------------------------------------
(* Instantiation: RingMaster<Q_TYPE, Capacity> is declared with any Capacity *)
(* a size_t can hold; the static_assert of the class decides whether the     *)
(* instance exists, and the threads then push and pop.                       *)

InitDeclare ==
    /\ Capacity \in 0 .. Modulus - 1
    /\ Members
    /\ harness = [NoHarness EXCEPT !.phase = "declared"]

\* Q_TYPE buffer_[0] is ill-formed in ISO C++ and accepted as an extension by
\* the compilers the build uses by default
ZeroLengthArray == {"free", "rejected"}

\* the class is instantiated: static_assert, then the members
Instantiate ==
    /\ harness.phase = "declared"
    /\ \E outcome \in (IF ~StaticAssert(Capacity) THEN {"rejected"}
                        ELSE IF Capacity = 0 THEN ZeroLengthArray
                        ELSE {"free"}) :
          harness' = [harness EXCEPT !.phase = outcome]
    /\ UNCHANGED <<obs, Capacity, head, tail, buffer, cv_mutex, spin_counter,
                   block_counter, prod, cons, pushed, popped>>

NextConstruct ==
    \/ Instantiate
    \/ \E v \in NextValues : harness.phase = "free" /\ CallPush(v)
    \/ PushSteps
    \/ (harness.phase = "free" /\ CallPop)
    \/ PopSteps

SpecConstruct == InitDeclare /\ [][NextConstruct]_vars

-----------------------------------------------------------------------------
(* Object layout: RingMaster<Q_TYPE, Capacity> is compiled with some         *)
(* CACHE_LINE_SIZE for a target with some size of std::atomic<size_t>; the   *)
(* compiler accepts or rejects the class and, if it accepts it, lays out     *)
(* head_, tail_ and buffer_ by the rules of the C++ ABI.                     *)

\* sizeof(std::atomic<size_t>) = alignof(std::atomic<size_t>): 32- and 64-bit targets
AtomicSizes == {4, 8}

\* sizeof and alignof of the Q_TYPEs of the model
ElementTypes == {[size |-> 1, align |-> 1], [size |-> 4, align |-> 4],
                 [size |-> 12, align |-> 4], [size |-> 16, align |-> 16]}

\* the next multiple of align at or after offset
RoundUp(offset, align) == ((offset + align - 1) \div align) * align

RECURSIVE IsAlignment(_)
\* alignas(n) is well-formed for a power of two only
IsAlignment(n) == n = 1 \/ (n > 1 /\ n % 2 = 0 /\ IsAlignment(n \div 2))

\* a PaddedAtomic whose pad is a whole cache line
SizeofPaddedAtomicFullPad(line, atomic) == RoundUp(atomic + line, line)
\* sizeof(PaddedAtomic): var, then pad[CACHE_LINE_SIZE - sizeof(var)], the
\* total rounded up to the alignment alignas(CACHE_LINE_SIZE)
SizeofPaddedAtomic(line, atomic) == RoundUp(atomic + (line - atomic), line)

\* the offsets of head_, tail_ and buffer_ in the class: each member at the next
\* multiple of its alignment after the member before it
OffsetOfHead == 0
OffsetOfTail(line, atomic) == RoundUp(OffsetOfHead + SizeofPaddedAtomic(line, atomic), line)
\* alignas(CACHE_LINE_SIZE) Q_TYPE buffer_[Capacity]: the stricter of the two alignments
AlignofBuffer(line, elem) == IF elem.align > line THEN elem.align ELSE line
OffsetOfBuffer(line, atomic, elem) ==
    RoundUp(OffsetOfTail(line, atomic) + SizeofPaddedAtomic(line, atomic),
            AlignofBuffer(line, elem))

\* alignas(CACHE_LINE_SIZE) weaker than alignof(Q_TYPE) is ill-formed; compilers
\* reject it or ignore it
WeakerAlignas == {"free", "rejected"}

\* what the compiler makes of the class: alignas needs a power of two, the
\* length of pad must not be negative, and a pad of length 0 is accepted as an
\* extension only
Compiles(line, atomic, elem) ==
    IF ~IsAlignment(line) \/ line < atomic THEN {"rejected"}
    ELSE IF line = atomic THEN ZeroLengthArray
    ELSE IF line < elem.align THEN WeakerAlignas
    ELSE {"free"}

Declared ==
    [phase |-> "declared", line |-> 0, atomic |-> 0, elem |-> [size |-> 0, align |-> 0],
     base |-> 0, padded |-> 0, head_at |-> 0, tail_at |-> 0, buffer_at |-> 0]

InitLayout ==
    /\ Constructed
    /\ \E line \in 1 .. MaxLineSize, atomic \in AtomicSizes, elem \in ElementTypes :
          harness = [Declared EXCEPT !.line = line, !.atomic = atomic, !.elem = elem]

\* the class is compiled and an instance is created at an address that is a
\* multiple of its alignment
Layout ==
    /\ harness.phase = "declared"
    /\ \E outcome \in Compiles(harness.line, harness.atomic, harness.elem),
          k \in 0 .. MaxBase :
          LET base == k * AlignofBuffer(harness.line, harness.elem)
          IN  harness' =
                IF outcome = "rejected"
                THEN [harness EXCEPT !.phase = "rejected"]
                ELSE [harness EXCEPT
                        !.phase = "free", !.base = base,
                        !.padded = SizeofPaddedAtomic(harness.line, harness.atomic),
                        !.head_at = base + OffsetOfHead,
                        !.tail_at = base + OffsetOfTail(harness.line, harness.atomic),
                        !.buffer_at = base + OffsetOfBuffer(harness.line, harness.atomic,
                                                            harness.elem)]
    /\ UNCHANGED <<obs, Capacity, head, tail, buffer, cv_mutex, spin_counter,
                   block_counter, prod, cons, pushed, popped>>

NextLayout == Layout

SpecLayout == InitLayout /\ [][NextLayout]_vars

-----------------------------------------------------------------------------
(* The cache-line-size probe (tools/cacheLineSize.cc) on Linux and the build *)
(* script (CMakeLists.txt) that runs it with try_run and passes what it      *)
(* printed as -DCACHE_LINE_SIZE; a build that does not go through the script *)
(* compiles the header with no CACHE_LINE_SIZE given.                        *)

\* #define CACHE_LINE_SIZE 64 under #ifndef CACHE_LINE_SIZE
DefaultLineSize == 64
\* set(DETECTED_CACHE_LINE_SIZE 64)
FallbackLineSize == 64
\* values of __builtin_hardware_destructive_interference_size() where the
\* compiler has it; 0 stands for a compiler without it
InterferenceSizes == {0, 32, 64, 128}

\* constexpr size_t compile_cacheline
CompileCacheline(builtin) == IF builtin # 0 THEN builtin ELSE 64

\* detect_x86: ((ebx >> 8) & 0xFF) * 8 on x86, constexpr 0 elsewhere
DetectX86(x86, clflush) == IF x86 THEN clflush * 8 ELSE 0

\* detect_linux_sysfs: if (f >> v) return v; return 0
DetectLinuxSysfs(file) == IF file.readable THEN file.value ELSE 0

\* a probe that trusts whatever sysfs holds
GetCachelineRuntimeTrustsSysfs(m) ==
    IF m.file.readable THEN DetectLinuxSysfs(m.file)
    ELSE IF DetectX86(m.x86, m.clflush) # 0 THEN DetectX86(m.x86, m.clflush)
    ELSE CompileCacheline(m.builtin)
\* get_cacheline_runtime with __linux__ defined
GetCachelineRuntime(m) ==
    IF DetectLinuxSysfs(m.file) > 0 THEN DetectLinuxSysfs(m.file)
    ELSE IF DetectX86(m.x86, m.clflush) # 0 THEN DetectX86(m.x86, m.clflush)
    ELSE CompileCacheline(m.builtin)

\* std::cout << n: the decimal digits of n, most significant first
RECURSIVE Decimal(_)
Decimal(n) == IF n < 10 THEN <<n>> ELSE Append(Decimal(n \div 10), n % 10)

\* the value of the macro CACHE_LINE_SIZE defined as the digits text
RECURSIVE MacroValue(_)
MacroValue(text) ==
    IF text = <<>> THEN 0
    ELSE 10 * MacroValue(SubSeq(text, 1, Len(text) - 1)) + text[Len(text)]

\* the machine the probe runs on and the way the program is built
Machines ==
    [file : [readable : BOOLEAN, value : 0 .. MaxLineSize],
     x86 : BOOLEAN, clflush : 0 .. MaxClflush, builtin : InterferenceSizes]

\* what try_run can leave in RUN_RESULT_CODE
ExitCodes == {"0", "1", "FAILED_TO_RUN"}

InitProbe ==
    /\ Constructed
    /\ \E m \in Machines, build \in {"cmake", "direct"} :
          /\ m.file.readable \/ m.file.value = 0
          /\ m.x86 \/ m.clflush = 0
          /\ harness = [phase |-> "start", machine |-> m, build |-> build,
                        COMPILE_RESULT |-> FALSE, RUN_RESULT_CODE |-> "",
                        DETECTED_CACHE_LINE_SIZE |-> <<>>, CACHE_LINE_SIZE |-> 0]

\* try_run: the probe is compiled and, if that succeeded, run; its exit code
\* and what it printed are kept
TryRun ==
    /\ harness.phase = "start" /\ harness.build = "cmake"
    /\ \/ harness' = [harness EXCEPT !.phase = "tried", !.COMPILE_RESULT = FALSE]
       \/ \E code \in ExitCodes :
             harness' = [harness EXCEPT
                           !.phase = "tried", !.COMPILE_RESULT = TRUE,
                           !.RUN_RESULT_CODE = code,
                           !.DETECTED_CACHE_LINE_SIZE =
                               Decimal(GetCachelineRuntime(harness.machine))]
    /\ UNCHANGED <<obs, Capacity, head, tail, buffer, cv_mutex, spin_counter,
                   block_counter, prod, cons, pushed, popped>>

\* if(COMPILE_RESULT AND "${RUN_RESULT_CODE}" STREQUAL "0") ... else() set(... 64)
ProcessResult ==
    /\ harness.phase = "tried"
    /\ harness' = IF harness.COMPILE_RESULT /\ harness.RUN_RESULT_CODE = "0"
                  THEN [harness EXCEPT !.phase = "processed"]
                  ELSE [harness EXCEPT !.phase = "processed",
                                       !.DETECTED_CACHE_LINE_SIZE = Decimal(FallbackLineSize)]
    /\ UNCHANGED <<obs, Capacity, head, tail, buffer, cv_mutex, spin_counter,
                   block_counter, prod, cons, pushed, popped>>

\* target_compile_definitions(CACHE_LINE_SIZE=${DETECTED_CACHE_LINE_SIZE}) and
\* the compilation of RingMaster.hh, or its compilation with nothing defined
CompileHeader ==
    /\ \/ harness.phase = "processed"
       \/ harness.phase = "start" /\ harness.build = "direct"
    /\ harness' = [harness EXCEPT
                     !.phase = "built",
                     !.CACHE_LINE_SIZE =
                         IF harness.build = "cmake"
                         THEN MacroValue(harness.DETECTED_CACHE_LINE_SIZE)
                         ELSE DefaultLineSize]
    /\ UNCHANGED <<obs, Capacity, head, tail, buffer, cv_mutex, spin_counter,
                   block_counter, prod, cons, pushed, popped>>

NextProbe ==
    \/ TryRun
    \/ ProcessResult
    \/ CompileHeader

SpecProbe == InitProbe /\ [][NextProbe]_vars

-----------------------------------------------------------------------------
(* A long spin phase: pop_wait on the empty buffer with no producer at work, *)
(* or push_wait on a buffer the producer has filled with no consumer at      *)
(* work; every attempt of the wait call fails.  spin_limit is near a         *)
(* multiple of 1024.                                                         *)

\* local_spins & 0x3FF is 0 at every multiple of YieldMask + 1 = 1024
LongSpinLimits ==
    {k * (YieldMask + 1) + d : k \in 0 .. MaxYields, d \in {-1, 0, 1}} \cap Nat

InitSpin ==
    /\ Constructed
    /\ harness \in {[NoHarness EXCEPT !.phase = "push_wait"],
                    [NoHarness EXCEPT !.phase = "pop_wait"]}

NextSpin ==
    \/ \E v \in NextValues :
          /\ harness.phase = "push_wait"
          /\ Sub(head, tail) < Capacity
          /\ CallPush(v)
    \/ \E v \in NextValues, l \in LongSpinLimits :
          /\ harness.phase = "push_wait"
          /\ Sub(head, tail) = Capacity
          /\ CallPushWait(v, l, FALSE)
    \/ PushSteps
    \/ PushWaitLock
    \/ PushWaitPredLoadHead
    \/ PushWaitPredLoadTail
    \/ PushWaitBlock
    \/ PushWaitReacquire
    \/ PushWaitSpuriousWake
    \/ \E l \in LongSpinLimits : harness.phase = "pop_wait" /\ CallPopWait(l, FALSE)
    \/ PopLoadTail
    \/ PopLoadHead
    \/ PopWaitLock
    \/ PopWaitPredLoadHead
    \/ PopWaitPredLoadTail
    \/ PopWaitBlock
    \/ PopWaitReacquire
    \/ PopWaitSpuriousWake

SpecSpin == InitSpin /\ [][NextSpin]_vars

-----------------------------------------------------------------------------
(* A frame test of push: at every call of push the driver records the        *)
(* cursors and the slots; the consumer pops and removes as it likes.         *)

InitFrame ==
    /\ Constructed
    /\ harness = [NoHarness EXCEPT !.phase = "fill"]

\* the driver records the buffer and the producer calls push(v)
SnapshotPush(v) ==
    /\ prod.pc = "idle"
    /\ Len(pushed) < MaxPush
    /\ prod' = [Begin(prod, "push", "push_load_head") EXCEPT !.value = v, !.pre = head]
    /\ harness' = [phase |-> "push", n |-> SizeOf(head, tail), k |-> Len(pushed),
                   tail |-> tail,
                   live |-> [i \in 1 .. Capacity |-> buffer[i - 1]],
                   at |-> Len(popped)]
    /\ UNCHANGED <<obs, Capacity, head, tail, buffer, cv_mutex, spin_counter,
                   block_counter, cons, pushed, popped>>

NextFrame ==
    \/ \E v \in NextValues : SnapshotPush(v)
    \/ PushSteps
    \/ CallPop
    \/ PopSteps
    \/ \E n \in 0 .. MaxRemove : CallRemove(n)
    \/ RemoveSteps

SpecFrame == InitFrame /\ [][NextFrame]_vars

-----------------------------------------------------------------------------
(* A long-running buffer: it has passed c elements, c a little less than     *)
(* 2^CursorBits, all of them popped; the threads then push, pop and remove.  *)
(* The histories and the values start anew.                                  *)

\* the buffer after c pushes of the value 0 and c pops: head_ = tail_ = c
InitWrap ==
    /\ Capacity \in Capacities
    /\ \E c \in Modulus - WrapRoom .. Modulus - 1 : head = c /\ tail = c
    /\ buffer = [i \in 0 .. Capacity - 1 |-> 0]
    /\ cv_mutex = "free"
    /\ spin_counter = [t \in {"prod", "cons"} |-> 0]
    /\ block_counter = [t \in {"prod", "cons"} |-> 0]
    /\ prod = IdleThread
    /\ cons = IdleThread
    /\ obs = IdleObserver
    /\ pushed = <<>>
    /\ popped = <<>>
    /\ harness = NoHarness

NextWrap ==
    \/ \E v \in NextValues : CallPush(v)
    \/ PushSteps
    \/ CallPop
    \/ PopSteps
    \/ \E n \in 0 .. MaxRemove : CallRemove(n)
    \/ RemoveSteps

SpecWrap == InitWrap /\ [][NextWrap]_vars

-----------------------------------------------------------------------------
(* The same long-running buffer under the demo's load: pushes and pops only. *)
(* The driver remembers the cursor value c the observation starts from, so   *)
(* that the number of elements that ever passed is known without wrapping.   *)

InitWrapFifo ==
    /\ Capacity \in Capacities
    /\ \E c \in Modulus - WrapRoom .. Modulus - 1 :
          /\ head = c
          /\ tail = c
          /\ harness = [NoHarness EXCEPT !.phase = "wrap", !.at = c]
    /\ buffer = [i \in 0 .. Capacity - 1 |-> 0]
    /\ cv_mutex = "free"
    /\ spin_counter = [t \in {"prod", "cons"} |-> 0]
    /\ block_counter = [t \in {"prod", "cons"} |-> 0]
    /\ prod = IdleThread
    /\ cons = IdleThread
    /\ obs = IdleObserver
    /\ pushed = <<>>
    /\ popped = <<>>

NextWrapFifo ==
    \/ \E v \in NextValues : CallPush(v)
    \/ PushSteps
    \/ CallPop
    \/ PopSteps

SpecWrapFifo == InitWrapFifo /\ [][NextWrapFifo]_vars

-----------------------------------------------------------------------------
(* An accounting test, in three settings: push against pop and remove;       *)
(* push_wait against pop and remove; pop_wait and remove against push.  The  *)
(* consumer adds up what remove returns (removed += buf.remove(n)).  In the  *)
(* first setting the driver, with no operation in flight, calls size() or    *)
(* clear(), and starts its counts anew at a clear.                           *)

\* the driver's books: the sum of the values remove returned, and the lengths
\* of the two histories at the last clear
InitAccount ==
    /\ Constructed
    /\ \E side \in {"none", "push_wait", "pop_wait"} :
          harness = [phase |-> "run", waits |-> side,
                     removed |-> 0, pushes |-> 0, pops |-> 0]

\* no operation is in flight and the driver's sum is up to date
Quiescent ==
    /\ prod.pc = "idle" /\ cons.pc = "idle" /\ obs.pc = "idle"
    /\ harness.phase = "run"

\* removed += buf.remove(n): the call
AccountRemove(n) ==
    /\ harness.phase = "run"
    /\ cons.pc = "idle"
    /\ obs.pc = "idle"
    /\ cons' = [Begin(cons, "remove", "remove_load_tail") EXCEPT !.n = n, !.pre = tail]
    /\ harness' = [harness EXCEPT !.phase = "remove"]
    /\ UNCHANGED <<obs, Capacity, head, tail, buffer, cv_mutex, spin_counter,
                   block_counter, prod, pushed, popped>>

\* removed += buf.remove(n): the addition of what the call returned
AccountSum ==
    /\ harness.phase = "remove"
    /\ cons.pc = "idle" /\ cons.op = "remove"
    /\ harness' = [harness EXCEPT !.phase = "run", !.removed = @ + cons.count]
    /\ UNCHANGED <<obs, Capacity, head, tail, buffer, cv_mutex, spin_counter,
                   block_counter, prod, cons, pushed, popped>>

\* buf.clear() with no operation in flight: the counts start anew
AccountClear ==
    /\ Quiescent
    /\ harness.waits = "none"
    /\ obs' = [IdleObserver EXCEPT !.pc = "clear_store_head", !.op = "clear"]
    /\ harness' = [harness EXCEPT !.removed = 0, !.pushes = Len(pushed),
                                  !.pops = Len(popped)]
    /\ UNCHANGED <<Capacity, head, tail, buffer, cv_mutex, spin_counter,
                   block_counter, prod, cons, pushed, popped>>

NextAccount ==
    \/ \E v \in NextValues :
          harness.waits # "push_wait" /\ obs.pc = "idle" /\ CallPush(v)
    \/ \E v \in NextValues, l \in SpinLimits :
          harness.waits = "push_wait" /\ obs.pc = "idle" /\ CallPushWait(v, l, FALSE)
    \/ PushSteps
    \/ PushWaitNotify
    \/ PushWaitLock
    \/ PushWaitPredLoadHead
    \/ PushWaitPredLoadTail
    \/ PushWaitBlock
    \/ PushWaitReacquire
    \/ PushWaitUnlock
    \/ PushWaitSpuriousWake
    \/ (/\ harness.waits # "pop_wait"
        /\ harness.phase = "run" /\ obs.pc = "idle"
        /\ CallPop)
    \/ \E l \in SpinLimits :
          /\ harness.waits = "pop_wait"
          /\ harness.phase = "run" /\ obs.pc = "idle"
          /\ CallPopWait(l, FALSE)
    \/ \E n \in 0 .. MaxRemove : AccountRemove(n)
    \/ AccountSum
    \/ PopSteps
    \/ RemoveSteps
    \/ PopWaitNotify
    \/ PopWaitLock
    \/ PopWaitPredLoadHead
    \/ PopWaitPredLoadTail
    \/ PopWaitBlock
    \/ PopWaitReacquire
    \/ PopWaitUnlock
    \/ PopWaitSpuriousWake
    \/ (Quiescent /\ harness.waits = "none" /\ CallQuery("obs", "size"))
    \/ QueryLoadHead
    \/ QueryLoadTail
    \/ AccountClear
    \/ ClearStoreHead
    \/ ClearStoreTail

SpecAccount == InitAccount /\ [][NextAccount]_vars

-----------------------------------------------------------------------------
(* The single-producer rule broken: the thread that the contract reserves    *)
(* for the consumer calls push as well, so that two threads execute push     *)
(* (RingMaster.hh 134-147) concurrently.  The record cons holds the locals   *)
(* of this second producer.  Two unsynchronised assignments to the same slot *)
(* are a data race: the slot then holds the value of one of them or an       *)
(* indeterminate mixture (Torn).                                             *)

\* the second producer calls push(v)
CallSecondPush(v) ==
    /\ cons.pc = "idle"
    /\ Len(pushed) < MaxPush
    /\ cons' = [Begin(cons, "push", "push_load_head") EXCEPT !.value = v, !.pre = head]
    /\ UNCHANGED <<obs, harness, Capacity, head, tail, buffer, cv_mutex, spin_counter,
                   block_counter, prod, pushed, popped>>

\* const size_t head = head_.var.load(relaxed)
SecondPushLoadHead ==
    /\ cons.pc = "push_load_head"
    /\ cons' = [cons EXCEPT !.pc = "push_load_tail", !.head = head]
    /\ UNCHANGED <<obs, harness, Capacity, head, tail, buffer, cv_mutex, spin_counter,
                   block_counter, prod, pushed, popped>>

\* const size_t tail = tail_.var.load(acquire); if (head - tail >= Capacity) return false
SecondPushLoadTail ==
    /\ cons.pc = "push_load_tail"
    /\ cons' = IF PushFull(cons.head, tail, Capacity)
               THEN AfterAttempt(cons, FALSE, "push_load_head")
               ELSE [cons EXCEPT !.pc = "push_write", !.tail = tail]
    /\ UNCHANGED <<obs, harness, Capacity, head, tail, buffer, cv_mutex, spin_counter,
                   block_counter, prod, pushed, popped>>

\* buffer_[head & Mask] = std::forward(value): the assignment begins
SecondPushWriteBegin ==
    /\ cons.pc = "push_write"
    /\ buffer' = [buffer EXCEPT ![SlotIndex(cons.head, Capacity)] = Torn]
    /\ cons' = [cons EXCEPT !.pc = "push_writing", !.moved = cons.rvalue,
                            !.raced = Overlaps(prod, cons.head)]
    /\ prod' = IF Overlaps(prod, cons.head) THEN [prod EXCEPT !.raced = TRUE] ELSE prod
    /\ UNCHANGED <<obs, harness, Capacity, head, tail, cv_mutex, spin_counter,
                   block_counter, pushed, popped>>

\* buffer_[head & Mask] = std::forward(value): the assignment is complete
SecondPushWriteEnd ==
    /\ cons.pc = "push_writing"
    /\ \E outcome \in IF cons.raced THEN {cons.value, Torn} ELSE {cons.value} :
          buffer' = [buffer EXCEPT ![SlotIndex(cons.head, Capacity)] = outcome]
    /\ cons' = [cons EXCEPT !.pc = "push_store", !.raced = FALSE]
    /\ UNCHANGED <<obs, harness, Capacity, head, tail, cv_mutex, spin_counter,
                   block_counter, prod, pushed, popped>>

\* head_.var.store(head + 1, release); return true
SecondPushStoreHead ==
    /\ cons.pc = "push_store"
    /\ head' = Add(cons.head, 1)
    /\ pushed' = Append(pushed, cons.value)
    /\ cons' = AfterAttempt(cons, TRUE, "push_load_head")
    /\ obs' = Observe(obs, head', tail)
    /\ UNCHANGED <<harness, Capacity, tail, buffer, cv_mutex, spin_counter,
                   block_counter, prod, popped>>

\* the second producer passes the values 11, 12, ..., apart from the first's
NextTwoProducers ==
    \/ \E v \in NextValues : CallPush(v)
    \/ PushSteps
    \/ \E v \in {Len(pushed) + 11} : CallSecondPush(v)
    \/ SecondPushLoadHead
    \/ SecondPushLoadTail
    \/ SecondPushWriteBegin
    \/ SecondPushWriteEnd
    \/ SecondPushStoreHead

SpecTwoProducers == Init /\ [][NextTwoProducers]_vars

-----------------------------------------------------------------------------
(* A clear test: pushes and pops in any interleaving; with no operation in   *)
(* flight the driver records the buffer and calls clear(), then the status   *)
(* queries, then pushes until push returns false and pops until pop returns  *)
(* false.                                                                    *)

InitClear ==
    /\ Constructed
    /\ harness = [NoHarness EXCEPT !.phase = "fill"]

\* no push or pop is in flight and the last of each succeeded: the driver
\* records the cursors, the slots and the two histories
HarnessBeforeClear ==
    /\ harness.phase = "fill"
    /\ prod.pc = "idle" /\ cons.pc = "idle"
    /\ prod.ret # "false" /\ cons.ret # "false"
    /\ harness' = [phase |-> "clear", n |-> SizeOf(head, tail), k |-> Len(pushed),
                   tail |-> tail,
                   live |-> [i \in 1 .. Capacity |-> buffer[i - 1]],
                   at |-> Len(popped)]
    /\ UNCHANGED <<obs, Capacity, head, tail, buffer, cv_mutex, spin_counter,
                   block_counter, prod, cons, pushed, popped>>

\* clear() has returned: the driver goes on to the status queries
HarnessCleared ==
    /\ harness.phase = "clear"
    /\ obs.op = "clear" /\ obs.pc = "idle"
    /\ harness' = [harness EXCEPT !.phase = "cleared"]
    /\ UNCHANGED <<obs, Capacity, head, tail, buffer, cv_mutex, spin_counter,
                   block_counter, prod, cons, pushed, popped>>

\* the queries are done: the driver goes on to push
HarnessRefill ==
    /\ harness.phase = "cleared"
    /\ obs.pc = "idle"
    /\ harness' = [harness EXCEPT !.phase = "refill"]
    /\ UNCHANGED <<obs, Capacity, head, tail, buffer, cv_mutex, spin_counter,
                   block_counter, prod, cons, pushed, popped>>

NextClear ==
    \/ \E v \in NextValues : harness.phase = "fill" /\ CallPush(v)
    \/ (harness.phase = "fill" /\ CallPop)
    \/ PushSteps
    \/ PopSteps
    \/ HarnessBeforeClear
    \/ (harness.phase = "clear" /\ obs.op # "clear" /\ CallClear)
    \/ ClearStoreHead
    \/ ClearStoreTail
    \/ HarnessCleared
    \/ \E q \in Queries : harness.phase = "cleared" /\ CallQuery("obs", q)
    \/ QueryLoadHead
    \/ QueryLoadTail
    \/ HarnessRefill
    \/ \E v \in NextValues :
          /\ harness.phase = "refill"
          /\ prod.ret # "false"
          /\ CallPush(v)
    \/ (/\ harness.phase = "refill"
        /\ prod.pc = "idle" /\ prod.ret = "false"
        /\ cons.ret # "false"
        /\ CallPop)

SpecClear == InitClear /\ [][NextClear]_vars

-----------------------------------------------------------------------------
(* The full-then-free scenario: pushes and pops in any interleaving fill the *)
(* buffer; with Capacity elements in it and no operation in flight the       *)
(* driver calls, each after the other has returned: push (refused), pop,     *)
(* push, and pop until pop returns false.                                    *)

InitBoundary ==
    /\ Constructed
    /\ harness = [NoHarness EXCEPT !.phase = "fill"]

\* the buffer holds Capacity elements: the driver records them, oldest first
HarnessFull ==
    /\ harness.phase = "fill"
    /\ prod.pc = "idle" /\ cons.pc = "idle"
    /\ SizeOf(head, tail) = Capacity
    /\ harness' = [phase |-> "full", n |-> 0, k |-> Len(pushed), tail |-> tail,
                   live |-> [i \in 1 .. Capacity |->
                               buffer[SlotIndex(Add(tail, i - 1), Capacity)]],
                   at |-> Len(popped)]
    /\ UNCHANGED <<obs, Capacity, head, tail, buffer, cv_mutex, spin_counter,
                   block_counter, prod, cons, pushed, popped>>

\* the driver calls push(v) and moves to the next line of the scenario
ScriptPush(v, from, to) ==
    /\ harness.phase = from
    /\ prod.pc = "idle" /\ cons.pc = "idle"
    /\ prod' = [Begin(prod, "push", "push_load_head") EXCEPT !.value = v, !.pre = head]
    /\ harness' = [harness EXCEPT !.phase = to]
    /\ UNCHANGED <<obs, Capacity, head, tail, buffer, cv_mutex, spin_counter,
                   block_counter, cons, pushed, popped>>

\* the driver calls pop(out) and moves to the next line of the scenario
ScriptPop(from, to) ==
    /\ harness.phase = from
    /\ prod.pc = "idle" /\ cons.pc = "idle"
    /\ cons' = [Begin(cons, "pop", "pop_load_tail") EXCEPT !.pre = tail]
    /\ harness' = [harness EXCEPT !.phase = to]
    /\ UNCHANGED <<obs, Capacity, head, tail, buffer, cv_mutex, spin_counter,
                   block_counter, prod, pushed, popped>>

NextBoundary ==
    \/ \E v \in NextValues : harness.phase = "fill" /\ CallPush(v)
    \/ (harness.phase = "fill" /\ CallPop)
    \/ PushSteps
    \/ PopSteps
    \/ HarnessFull
    \/ \E v \in NextValues : ScriptPush(v, "full", "refused")
    \/ ScriptPop("refused", "freed")
    \/ \E v \in NextValues : ScriptPush(v, "freed", "pushed")
    \/ ScriptPop("pushed", "drain")
    \/ (cons.ret # "false" /\ ScriptPop("drain", "drain"))

SpecBoundary == InitBoundary /\ [][NextBoundary]_vars

-----------------------------------------------------------------------------
(* Every operation of the class, in three settings: push_wait and push       *)
(* against pop and remove; pop_wait, pop and remove against push; push       *)
(* against pop with a third thread calling the status queries and, when no   *)
(* push or pop is in flight, clear.                                          *)

InitOps ==
    /\ Constructed
    /\ harness \in {[NoHarness EXCEPT !.phase = "push_wait"],
                    [NoHarness EXCEPT !.phase = "pop_wait"],
                    [NoHarness EXCEPT !.phase = "query"]}

\* clear() is running: no push or pop may begin (clear is not thread-safe)
Clearing == obs.op = "clear" /\ obs.pc # "idle"

NextOps ==
    \/ \E v \in NextValues : ~Clearing /\ CallPush(v)
    \/ \E v \in NextValues, l \in SpinLimits :
          harness.phase = "push_wait" /\ CallPushWait(v, l, FALSE)
    \/ PushSteps
    \/ PushWaitNotify
    \/ PushWaitLock
    \/ PushWaitPredLoadHead
    \/ PushWaitPredLoadTail
    \/ PushWaitBlock
    \/ PushWaitReacquire
    \/ PushWaitUnlock
    \/ PushWaitSpuriousWake
    \/ (~Clearing /\ CallPop)
    \/ \E l \in SpinLimits : harness.phase = "pop_wait" /\ CallPopWait(l, FALSE)
    \/ \E n \in 0 .. MaxRemove : harness.phase # "query" /\ CallRemove(n)
    \/ PopSteps
    \/ RemoveSteps
    \/ PopWaitNotify
    \/ PopWaitLock
    \/ PopWaitPredLoadHead
    \/ PopWaitPredLoadTail
    \/ PopWaitBlock
    \/ PopWaitReacquire
    \/ PopWaitUnlock
    \/ PopWaitSpuriousWake
    \/ \E q \in Queries : harness.phase = "query" /\ CallQuery("obs", q)
    \/ QueryLoadHead
    \/ QueryLoadTail
    \/ (/\ harness.phase = "query"
        /\ prod.pc = "idle" /\ cons.pc = "idle"
        /\ CallClear)
    \/ ClearStoreHead
    \/ ClearStoreTail

SpecOps == InitOps /\ [][NextOps]_vars

-----------------------------------------------------------------------------
(* Notions the claims use *)

IsPrefix(a, b) ==
    /\ Len(a) <= Len(b)
    /\ \A i \in 1 .. Len(a) : a[i] = b[i]

\* the logical positions tail, tail + 1, ..., head - 1 of the live window
LiveWindow == {Add(tail, k) : k \in 0 .. Sub(head, tail) - 1}

\* the value given to the successful push number p (counted from 0), if any
ValueAt(p) == IF p + 1 \in DOMAIN pushed THEN pushed[p + 1] ELSE Unset

ProducerWritesSlot == prod.pc \in {"push_write", "push_writing"}
ConsumerReadsSlot == cons.pc \in {"pop_read", "pop_reading"}

\* C1: FIFO.  With one producer calling push and one consumer calling pop, under
\* every interleaving of their steps the values delivered by successful pops
\* are a prefix of the values accepted by successful pushes.
C1_Fifo == IsPrefix(popped, pushed)

\* more values than the capacity have passed through the buffer
C1_Witness ==
    /\ Len(popped) > Capacity
    /\ popped = pushed
    /\ Capacity = 2

\* C2: capacity bound.  In every reachable state, operations in mid-flight
\* included, 0 <= head - tail <= Capacity.
C2_CapacityBound ==
    /\ 0 <= head - tail
    /\ head - tail <= Capacity
    /\ Sub(head, tail) = head - tail

\* the buffer is full while a push_wait and a remove are between load and store
C2_Witness ==
    /\ head - tail = Capacity
    /\ prod.op = "push_wait" /\ prod.pc = "push_load_tail"
    /\ cons.op = "remove" /\ cons.pc = "remove_store"

\* C5: a push that finds the buffer full at its tail load returns false and
\* writes nothing: its step leaves head, tail and every slot as they were, head
\* and the slots are as they were when the call began, and the caller's value
\* is not moved from.
C5_FailedPushNoEffect ==
    /\ [][(/\ prod.op = "push" /\ prod.pc = "push_load_tail"
           /\ PushFull(prod.head, tail, Capacity)
           /\ prod' # prod)
          => (/\ prod'.pc = "idle" /\ prod'.ret = "false"
              /\ head' = head /\ tail' = tail /\ buffer' = buffer
              /\ SizeOf(head', tail') = SizeOf(head, tail)
              /\ prod'.value = prod.value /\ ~prod'.moved)]_vars
    /\ [](prod.op = "push" /\ prod.pc = "idle" /\ prod.ret = "false"
          => /\ head = prod.pre
             /\ ~prod.moved
             /\ prod.succ = 0
             /\ Len(pushed) = prod.value - 1
             /\ \A i \in DOMAIN buffer : buffer[i] # prod.value)

\* a push(std::move(x)) has returned false and the buffer is still full
C5_Witness ==
    /\ prod.op = "push" /\ prod.pc = "idle" /\ prod.ret = "false"
    /\ prod.rvalue
    /\ head - tail = Capacity
    /\ Capacity = 2

\* C6: a pop that finds the buffer empty at its head load returns false and
\* writes nothing: its step leaves head, tail, every slot and out as they were,
\* and tail is as it was when the call began.
C6_FailedPopNoEffect ==
    /\ [][(/\ cons.op = "pop" /\ cons.pc = "pop_load_head"
           /\ PopEmpty(head, cons.tail)
           /\ cons' # cons)
          => (/\ cons'.pc = "idle" /\ cons'.ret = "false"
              /\ head' = head /\ tail' = tail /\ buffer' = buffer
              /\ SizeOf(head', tail') = 0
              /\ cons'.value = cons.value)]_vars
    /\ [](cons.op = "pop" /\ cons.pc = "idle" /\ cons.ret = "false"
          => /\ tail = cons.pre
             /\ cons.succ = 0
             /\ (popped # <<>> => cons.value = popped[Len(popped)])
             /\ (popped = <<>> => cons.value = 0))

\* a pop has returned false after an earlier pop had delivered a value to out
C6_Witness ==
    /\ cons.op = "pop" /\ cons.pc = "idle" /\ cons.ret = "false"
    /\ head = tail
    /\ cons.value = 2

\* C7: slot exclusivity.  The producer is never writing the slot the consumer
\* is reading, and the slot the producer writes is never one of the live
\* window [tail, head).
C7_SlotExclusive ==
    /\ ~(/\ ProducerWritesSlot
         /\ ConsumerReadsSlot
         /\ SlotIndex(prod.head, Capacity) = SlotIndex(cons.tail, Capacity))
    /\ ProducerWritesSlot
         => \A p \in LiveWindow :
               SlotIndex(p, Capacity) # SlotIndex(prod.head, Capacity)

\* the producer is in the middle of a slot write while the consumer is in the
\* middle of a slot read
C7_Witness ==
    /\ prod.pc = "push_writing"
    /\ cons.pc = "pop_reading"

\* C8: publication order.  Every position of the live window holds, complete,
\* the value given to the push of that position; a push has assigned its slot
\* before it stores head, a pop has read its slot before it stores tail, and
\* the producer writes a slot only when the position that last used it has been
\* released by a completed tail store.
C8_PublicationOrder ==
    /\ \A p \in LiveWindow : buffer[SlotIndex(p, Capacity)] = ValueAt(p)
    /\ prod.pc = "push_store"
         => /\ head = prod.head
            /\ buffer[SlotIndex(prod.head, Capacity)] = prod.value
    /\ cons.pc = "pop_store"
         => /\ tail = cons.tail
            /\ cons.value = ValueAt(cons.tail)
            /\ cons.value \notin {Unset, Torn}
    /\ ProducerWritesSlot
         => /\ Sub(prod.head, tail) < Capacity
            /\ ~(cons.pc = "pop_reading"
                 /\ SlotIndex(cons.tail, Capacity) = SlotIndex(prod.head, Capacity))

\* the producer overwrites a slot whose earlier value a pop has delivered
C8_Witness ==
    /\ prod.pc = "push_writing"
    /\ prod.head >= Capacity
    /\ Len(popped) >= 1
    /\ head - tail = Capacity - 1
    /\ Capacity = 2

Min(a, b) == IF a < b THEN a ELSE b

\* C9: remove(n) on a buffer holding k elements, with no concurrent push,
\* returns min(n, k) and advances tail by exactly that amount; the pops that
\* drain the buffer afterwards deliver exactly the k - min(n, k) newest
\* elements in their original order.
C9_RemoveSemantics ==
    /\ harness.phase \in {"remove", "drain"} /\ cons.op = "remove" /\ cons.pc = "idle"
         => /\ cons.count = Min(harness.n, harness.k)
            /\ tail = Add(harness.tail, Min(harness.n, harness.k))
            /\ head = Add(harness.tail, harness.k)
    /\ harness.phase = "drain"
         => IsPrefix(SubSeq(popped, harness.at + 1, Len(popped)),
                     SubSeq(harness.live, Min(harness.n, harness.k) + 1, harness.k))
    /\ harness.phase = "drain" /\ cons.op = "pop" /\ cons.pc = "idle" /\ cons.ret = "false"
         => SubSeq(popped, harness.at + 1, Len(popped))
              = SubSeq(harness.live, Min(harness.n, harness.k) + 1, harness.k)

\* remove(1) on a buffer of two elements, begun at tail > 0, and the drain done
C9_Witness ==
    /\ harness.phase = "drain" /\ cons.op = "pop" /\ cons.pc = "idle" /\ cons.ret = "false"
    /\ harness.n = 1 /\ harness.k = 2 /\ harness.tail > 0
    /\ Len(popped) = harness.at + 1

\* C10: push_wait returns only after exactly one successful push of its own
\* value (head one past its value at the call, the slot holds the value, the
\* value accepted once); pop_wait returns only after exactly one successful
\* pop, and returns true.
C10_WaitReturnsAfterOneSuccess ==
    /\ prod.op = "push_wait" /\ prod.pc \in {"notify", "idle"}
         => /\ prod.succ = 1
            /\ head = Add(prod.pre, 1)
            /\ buffer[SlotIndex(prod.pre, Capacity)] = prod.value
            /\ Cardinality({i \in DOMAIN pushed : pushed[i] = prod.value}) = 1
            /\ pushed[Len(pushed)] = prod.value
    /\ prod.op = "push_wait" /\ prod.pc = "idle" => prod.ret = "void"
    /\ cons.op = "pop_wait" /\ cons.pc \in {"notify", "idle"}
         => /\ cons.succ = 1
            /\ tail = Add(cons.pre, 1)
            /\ popped # <<>>
            /\ popped[Len(popped)] = cons.value
    /\ cons.op = "pop_wait" /\ cons.pc = "idle" => cons.ret = "true"

\* a push_wait that failed and blocked is about to return, a pop_wait has returned
C10_Witness ==
    /\ prod.op = "push_wait" /\ prod.pc = "notify"
    /\ prod.fails >= 1 /\ prod.blocks >= 1
    /\ cons.op = "pop_wait" /\ cons.pc = "idle" /\ cons.ret = "true"

\* the query o returned what it would return for the cursor pair <<h, t>>
AnswerFor(o, h, t) ==
    CASE o.op = "isEmpty" -> o.flag = IsEmptyOf(h, t)
      [] o.op = "isFull" -> o.flag = IsFullOf(h, t, Capacity)
      [] o.op = "size" -> o.count = SizeOf(h, t)
      [] OTHER -> FALSE

\* C11: a status query whose two loads happen in a quiescent state (no push or
\* pop in flight when it returns, the cursors unchanged since its head load)
\* returns: isFull() true iff head - tail = Capacity, isEmpty() true iff
\* head = tail, size() = head - tail.
C11_QuiescentQueries ==
    [][(/\ obs.pc = "query_load_tail" /\ obs'.pc = "idle"
        /\ prod.pc = "idle" /\ cons.pc = "idle"
        /\ obs.seen = {<<head, tail>>})
       => (/\ obs'.op = "isFull" => (obs'.flag <=> (Sub(head, tail) = Capacity))
           /\ obs'.op = "isEmpty" => (obs'.flag <=> (head = tail))
           /\ obs'.op = "size" => (obs'.count = Sub(head, tail))
           /\ head' = head /\ tail' = tail)]_vars

\* isFull() has returned true in a quiescent state of a full buffer
C11_Witness ==
    /\ obs.pc = "idle" /\ obs.op = "isFull" /\ obs.flag
    /\ prod.pc = "idle" /\ cons.pc = "idle"
    /\ obs.seen = {<<head, tail>>}
    /\ head - tail = Capacity /\ Capacity = 2 /\ tail >= 1

\* C12: snapshot validity.  What isEmpty(), isFull() or size() returns, called
\* by the producer, the consumer or a third thread while push and pop run, is
\* what the query gives for the true pair <<head, tail>> of some instant
\* between its load of head and its load of tail.
C12_QuerySnapshot ==
    obs.pc = "idle" /\ obs.op \in Queries
        => \E pair \in obs.seen : AnswerFor(obs, pair[1], pair[2])

\* the positions of the slow path of push_wait / pop_wait
SlowPath == {"block_count", "lock", "pred_load_head", "pred_load_tail", "wait",
             "blocked", "woken", "unlock"}
\* the positions at which the thread holds cv_mutex_
HoldsMutex == {"pred_load_head", "pred_load_tail", "wait", "unlock"}

SpunBeforeBlock(t, name) ==
    /\ t.pc \in SlowPath
         => /\ t.op \in {"push_wait", "pop_wait"}
            /\ t.fails >= 1 /\ t.fails >= t.spin_limit
            /\ t.local_spins >= 1 /\ t.local_spins >= t.spin_limit
            /\ t.succ = 0
    /\ cv_mutex = name <=> t.pc \in HoldsMutex
    /\ t.op \in {"push", "pop", "remove"} => t.pc \notin SlowPath /\ cv_mutex # name
    /\ t.pc = "notify" /\ t.fails < t.spin_limit => t.blocks = 0

\* C13: spin before block.  A push_wait / pop_wait call is on its slow path
\* (taking or holding the mutex, in the condition-wait) only after at least
\* spin_limit consecutive failed attempts since the call began or since its
\* last wake-up, and at least one; a call that succeeds earlier has not
\* blocked; push, pop and remove never take the mutex.
C13_SpinBeforeBlock ==
    /\ SpunBeforeBlock(prod, "prod")
    /\ SpunBeforeBlock(cons, "cons")

\* the producer holds the mutex after two failed attempts with spin_limit 2,
\* having blocked before in the same call, while the consumer is inside pop
C13_Witness ==
    /\ prod.op = "push_wait" /\ prod.pc = "wait" /\ cv_mutex = "prod"
    /\ prod.spin_limit = 2 /\ prod.local_spins = 2 /\ prod.blocks >= 1
    /\ cons.op = "pop" /\ cons.pc # "idle"

\* the call of thread t is over but for its notify_one and its return
CallDone(t) == t.op \in {"push_wait", "pop_wait"} /\ t.counters /\ t.pc = "notify"

\* C14: block_counter, when supplied, has increased at the end of a push_wait
\* / pop_wait call by exactly the number of times the thread entered the
\* condition-wait during the call.
C14_BlockCounterExact ==
    /\ CallDone(prod) => block_counter["prod"] - prod.pre_block = prod.blocks
    /\ CallDone(cons) => block_counter["cons"] - cons.pre_block = cons.blocks

SpinCounterOf(t, name) ==
    /\ CallDone(t) /\ t.fails = 0 => spin_counter[name] = t.pre_spin
    /\ spin_counter[name] # t.pre_spin => t.op \in {"push_wait", "pop_wait"}
    /\ spin_counter[name] # t.pre_spin /\ t.pc # "idle" => t.fails >= 1
    /\ spin_counter[name] >= t.pre_spin

\* C15: spin_counter, when supplied, is unchanged by a push_wait / pop_wait
\* call whose first attempt succeeds, changes only in calls that had a failed
\* attempt, and never decreases.
C15_SpinCounter ==
    /\ [](SpinCounterOf(prod, "prod") /\ SpinCounterOf(cons, "cons"))
    /\ [][/\ spin_counter'["prod"] >= spin_counter["prod"]
          /\ spin_counter'["cons"] >= spin_counter["cons"]]_vars

\* a push_wait whose first attempt succeeded leaves the counter at the value
\* to which an earlier call with failed attempts had raised it
C15_Witness ==
    /\ CallDone(prod) /\ prod.fails = 0
    /\ spin_counter["prod"] >= 1 /\ spin_counter["prod"] = prod.pre_spin

IsPowerOfTwo(n) == \E k \in 0 .. CursorBits - 1 : n = 2 ^ k

\* C16: capacity validation.  An instance exists only for a Capacity that is a
\* power of two (1, 2, 4, ...), and every Capacity that is rejected is not a
\* power of two: 0 and every other non-power of two is rejected before an
\* instance exists.
C16_CapacityValidation ==
    /\ harness.phase = "free" => IsPowerOfTwo(Capacity)
    /\ harness.phase = "rejected" => ~IsPowerOfTwo(Capacity)

\* C17: clear(), called with no operation in flight, sets head = 0 and
\* tail = 0 and leaves every slot as it was; afterwards isEmpty() is true,
\* size() is 0 and isFull() is false, the buffer accepts exactly Capacity
\* pushes before push returns false, and pops deliver exactly those, in order.
C17_Clear ==
    /\ harness.phase = "clear" /\ obs.op = "clear" /\ obs.pc = "idle"
         => /\ head = 0 /\ tail = 0
            /\ \A i \in 1 .. Capacity : buffer[i - 1] = harness.live[i]
    /\ harness.phase = "cleared" /\ obs.pc = "idle"
         => /\ obs.op = "isEmpty" => obs.flag
            /\ obs.op = "isFull" => ~obs.flag
            /\ obs.op = "size" => obs.count = 0
    /\ harness.phase = "refill"
         => /\ Len(pushed) - harness.k <= Capacity
            /\ prod.pc = "idle" /\ prod.ret = "false"
                 => Len(pushed) - harness.k = Capacity
            /\ IsPrefix(SubSeq(popped, harness.at + 1, Len(popped)),
                        SubSeq(pushed, harness.k + 1, Len(pushed)))
            /\ cons.pc = "idle" /\ cons.ret = "false"
                 => SubSeq(popped, harness.at + 1, Len(popped))
                      = SubSeq(pushed, harness.k + 1, Len(pushed))

\* a buffer of capacity 2 was cleared while it held an element, then took two
\* pushes, refused the third, and was drained
C17_Witness ==
    /\ harness.phase = "refill" /\ Capacity = 2
    /\ harness.n >= 1
    /\ prod.pc = "idle" /\ prod.ret = "false"
    /\ cons.pc = "idle" /\ cons.ret = "false"
    /\ Len(popped) = harness.at + 2

\* the elements the drain of the full-then-free scenario has to deliver: the
\* Capacity - 1 elements left after the first pop, then the new one
Expected == SubSeq(harness.live, 2, Capacity) \o <<harness.k + 1>>

\* what the pops after the first one of the scenario have delivered
Drained == SubSeq(popped, harness.at + 2, Len(popped))

\* C18: full-then-free boundary.  On a buffer holding Capacity elements push
\* returns false and changes nothing; after one pop, which delivers the
\* oldest element, the next push succeeds and reuses the freed slot; the pops
\* that follow deliver the Capacity - 1 older elements and then the new one.
C18_FullThenFree ==
    /\ harness.phase = "refused" /\ prod.pc = "idle"
         => /\ prod.ret = "false"
            /\ Len(pushed) = harness.k /\ SizeOf(head, tail) = Capacity
    /\ harness.phase = "freed" /\ cons.pc = "idle"
         => /\ cons.ret = "true" /\ cons.value = harness.live[1]
            /\ SizeOf(head, tail) = Capacity - 1
    /\ harness.phase = "pushed" /\ prod.pc = "idle"
         => /\ prod.ret = "true"
            /\ pushed = Append(SubSeq(pushed, 1, harness.k), prod.value)
            /\ SizeOf(head, tail) = Capacity
            /\ buffer[SlotIndex(harness.tail, Capacity)] = prod.value
    /\ harness.phase = "drain"
         => /\ IsPrefix(Drained, Expected)
            /\ cons.pc = "idle" /\ cons.ret = "false" => Drained = Expected

\* the scenario has run to its end on a buffer of capacity 2 whose cursors
\* were past the first slot when it was full
C18_Witness ==
    /\ harness.phase = "drain" /\ cons.pc = "idle" /\ cons.ret = "false"
    /\ Capacity = 2 /\ harness.tail >= 1
    /\ Len(pushed) = harness.k + 1

\* the step is one of the producer's, of the consumer's, of the third thread's
\* (a blocked thread that is woken has not taken a step of its own)
ProducerStep == prod'.pc # prod.pc /\ prod.pc # "blocked"
ConsumerStep == cons'.pc # cons.pc /\ cons.pc # "blocked"
ObserverStep == obs'.pc # obs.pc

\* C19: cursor ownership.  tail is written only by the tail store of pop,
\* pop_wait and remove and by clear; head only by the head store of push and
\* push_wait and by clear; a slot only by the slot write of push and
\* push_wait.  No step of the producer changes tail, no step of the consumer
\* changes head or a slot, no step of isEmpty, isFull or size changes a
\* cursor or a slot, and clear stores 0 into both cursors.
C19_CursorOwnership ==
    [][/\ tail' # tail
          => \/ /\ ConsumerStep /\ cons.pc = "pop_store"
                /\ cons.op \in {"pop", "pop_wait"}
             \/ ConsumerStep /\ cons.pc = "remove_store" /\ cons.op = "remove"
             \/ ObserverStep /\ obs.op = "clear" /\ obs.pc = "clear_store_tail"
       /\ head' # head
          => \/ /\ ProducerStep /\ prod.pc = "push_store"
                /\ prod.op \in {"push", "push_wait"}
             \/ ObserverStep /\ obs.op = "clear" /\ obs.pc = "clear_store_head"
       /\ buffer' # buffer
          => /\ ProducerStep /\ prod.pc \in {"push_write", "push_writing"}
             /\ prod.op \in {"push", "push_wait"}
       /\ ProducerStep => tail' = tail
       /\ ConsumerStep => head' = head /\ buffer' = buffer
       /\ ObserverStep /\ obs.op \in Queries
          => head' = head /\ tail' = tail /\ buffer' = buffer
       /\ ObserverStep /\ obs.pc = "clear_store_head" => head' = 0 /\ tail' = tail
       /\ ObserverStep /\ obs.pc = "clear_store_tail" => tail' = 0 /\ head' = head
      ]_vars

\* remove has advanced tail by two while the producer is blocked in push_wait
C19_Witness ==
    /\ cons.op = "remove" /\ cons.pc = "idle" /\ cons.count = 2 /\ tail >= 2
    /\ prod.op = "push_wait" /\ prod.pc = "blocked"

\* the position of a non-blocking operation in its straight-line code
Rank(pc) ==
    CASE pc \in {"push_load_head", "pop_load_tail", "remove_load_tail",
                 "query_load_head"} -> 1
      [] pc \in {"push_load_tail", "pop_load_head", "remove_load_head",
                 "query_load_tail"} -> 2
      [] pc \in {"push_write", "pop_read", "remove_store"} -> 3
      [] pc \in {"push_writing", "pop_reading"} -> 4
      [] pc \in {"push_store", "pop_store"} -> 5
      [] OTHER -> 6

\* C20: push, pop, remove, isEmpty, isFull and size never wait on another
\* thread: in every reachable state the next step of a thread inside one of
\* them can be taken, whatever the other threads are doing, and every step
\* moves the operation forward in its straight-line code, so that it returns
\* after at most five steps of its thread.
C20_NonBlocking ==
    /\ [](/\ prod.op = "push" /\ prod.pc # "idle" => ENABLED PushSteps
          /\ cons.op = "pop" /\ cons.pc # "idle" => ENABLED PopSteps
          /\ cons.op = "remove" /\ cons.pc # "idle" => ENABLED RemoveSteps
          /\ obs.op \in Queries /\ obs.pc # "idle"
               => ENABLED (QueryLoadHead \/ QueryLoadTail))
    /\ [][/\ prod.op = "push" /\ prod.pc # "idle" /\ prod' # prod
               => Rank(prod'.pc) > Rank(prod.pc)
          /\ cons.op \in {"pop", "remove"} /\ cons.pc # "idle" /\ cons' # cons
               => Rank(cons'.pc) > Rank(cons.pc)
          /\ obs.op \in Queries /\ obs.pc # "idle" /\ obs'.pc # obs.pc
               => Rank(obs'.pc) > Rank(obs.pc)]_vars

\* a pop is in flight while the producer is blocked in push_wait, the consumer
\* having found the buffer empty before
C20_Witness ==
    /\ cons.op = "pop" /\ cons.pc = "pop_load_head"
    /\ prod.op = "push_wait" /\ prod.pc \in {"wait", "blocked"}
    /\ Capacity = 1

\* the call of thread t as it is when its two counters are null: the steps that
\* publish a counter are skipped, the rest of the call is the same
Erase(t) ==
    [t EXCEPT !.counters = FALSE, !.pre_spin = 0, !.pre_block = 0,
              !.pc = CASE @ = "stats" -> "notify"
                       [] @ = "block_count" -> "lock"
                       [] OTHER -> @]

\* the step publishes a counter of thread t
CounterStep(t, next) == t.pc \in {"stats", "block_count"} /\ next # t

\* C21: the observability counters do not influence the buffer.  A step that
\* publishes spin_counter or block_counter changes nothing else; the counters
\* change in no other step and never in a call whose counters are null; and
\* after every push / pop attempt a call with counters supplied decides as
\* the same call with null counters does (same return, same spin, yield or
\* block decision, same position once the counter steps are left out), so
\* that under one schedule the two runs agree on head, tail, the slots,
\* blocking and return values at every step.
C21_CountersInert ==
    [][/\ CounterStep(prod, prod') \/ CounterStep(cons, cons')
          => /\ Erase(prod') = Erase(prod) /\ Erase(cons') = Erase(cons)
             /\ UNCHANGED <<head, tail, buffer, cv_mutex, pushed, popped>>
       /\ spin_counter'["prod"] # spin_counter["prod"]
          \/ block_counter'["prod"] # block_counter["prod"]
          => prod.counters /\ CounterStep(prod, prod')
       /\ spin_counter'["cons"] # spin_counter["cons"]
          \/ block_counter'["cons"] # block_counter["cons"]
          => cons.counters /\ CounterStep(cons, cons')
       /\ prod.pc = "push_load_tail" /\ prod' # prod /\ PushFull(prod.head, tail, Capacity)
          => Erase(prod') = AfterAttempt(Erase(prod), FALSE, "push_load_head")
       /\ prod.pc = "push_store" /\ prod' # prod
          => Erase(prod') = AfterAttempt(Erase(prod), TRUE, "push_load_head")
       /\ cons.pc = "pop_load_head" /\ cons' # cons /\ PopEmpty(head, cons.tail)
          => Erase(cons') = AfterAttempt(Erase(cons), FALSE, "pop_load_tail")
       /\ cons.pc = "pop_store" /\ cons' # cons
          => Erase(cons') = AfterAttempt(Erase(cons), TRUE, "pop_load_tail")
       /\ prod.pc # "idle" /\ prod'.pc # "idle" => prod'.counters = prod.counters
       /\ cons.pc # "idle" /\ cons'.pc # "idle" => cons'.counters = cons.counters
      ]_vars

\* a push_wait with counters supplied has blocked and is about to return, an
\* earlier call having published its spins
C21_Witness ==
    /\ CallDone(prod) /\ prod.blocks >= 1
    /\ block_counter["prod"] > prod.pre_block
    /\ spin_counter["prod"] >= 1

\* both loops of the demo have ended: producer.join() and consumer.join() return
DemoDone ==
    /\ prod.pc = "idle" /\ Len(pushed) = Items
    /\ cons.pc = "idle" /\ Len(popped) = Items

\* the values 0, 1, ..., Items - 1
DemoSequence == [i \in 1 .. Items |-> i - 1]

\* C22: termination of the demo.  With the producer retrying push(i) until it
\* succeeds for i = 0, 1, ... and the consumer retrying pop until it has
\* received as many values, both threads scheduled fairly, both loops end,
\* and the consumer has then received exactly 0, 1, ... in that order (and a
\* prefix of it at every moment before).
C22_DemoTerminates ==
    /\ <>DemoDone
    /\ [](IsPrefix(popped, DemoSequence))
    /\ [](DemoDone => popped = DemoSequence /\ pushed = DemoSequence)

\* the demo has ended on a buffer of capacity 2: every slot was used twice
C22_Witness ==
    /\ DemoDone
    /\ Capacity = 2
    /\ head = Items /\ tail = Items
    /\ cons.ret = "true"

\* the cache line of a byte address
LineOf(address) == address \div harness.line

\* the cache lines holding a byte of the counter at address at
CounterLines(at) == {LineOf(at + b) : b \in 0 .. harness.atomic - 1}

\* the cache lines holding a byte of a slot of buffer_
SlotLines ==
    {LineOf(harness.buffer_at + b) : b \in 0 .. Capacity * harness.elem.size - 1}

\* C23: cache-line separation.  For every CACHE_LINE_SIZE that is a power of
\* two not smaller than the atomic counter, in every instance that exists
\* head_, tail_ and the first slot of buffer_ start at distinct multiples of
\* CACHE_LINE_SIZE, each padded counter is exactly CACHE_LINE_SIZE bytes, and
\* the cache lines of head, of tail and of the slots are pairwise disjoint;
\* every other CACHE_LINE_SIZE is rejected by the compiler.
C23_CacheLineSeparation ==
    /\ harness.phase = "free"
         => /\ IsAlignment(harness.line) /\ harness.line >= harness.atomic
            /\ harness.head_at % harness.line = 0
            /\ harness.tail_at % harness.line = 0
            /\ harness.buffer_at % harness.line = 0
            /\ Cardinality({harness.head_at, harness.tail_at, harness.buffer_at}) = 3
            /\ harness.padded = harness.line
            /\ harness.tail_at = harness.head_at + harness.line
            /\ harness.buffer_at >= harness.tail_at + harness.line
            /\ CounterLines(harness.head_at) \cap CounterLines(harness.tail_at) = {}
            /\ CounterLines(harness.head_at) \cap SlotLines = {}
            /\ CounterLines(harness.tail_at) \cap SlotLines = {}
    /\ harness.phase = "rejected"
         => \/ ~IsAlignment(harness.line)
            \/ harness.line <= harness.atomic
            \/ harness.line < harness.elem.align

\* an instance with CACHE_LINE_SIZE 16 on a 64-bit target, not at address 0,
\* whose slots span more than one cache line
C23_Witness ==
    /\ harness.phase = "free"
    /\ harness.line = 16 /\ harness.atomic = 8 /\ harness.base > 0
    /\ Capacity * harness.elem.size > harness.line

\* the slot head & (N - 1) of the push in flight or just returned
PushSlot == BitAnd(prod.pre, Capacity - 1)

\* the slots of the live window [tail, head) as it was when push was called
WindowAtCall ==
    {BitAnd(Add(harness.tail, k), Capacity - 1) : k \in 0 .. harness.n - 1}

\* the slots of the live window [tail, head) as the push saw it at its tail load
WindowAtLoad ==
    {BitAnd(Add(prod.tail, k), Capacity - 1) : k \in 0 .. Sub(prod.head, prod.tail) - 1}

\* a call of push has returned true
PushSucceeded ==
    harness.phase = "push" /\ prod.op = "push" /\ prod.pc = "idle" /\ prod.ret = "true"

\* what a successful push writes: its steps leave tail alone, change no slot
\* but head & (N - 1), and store head + 1 only once the slot holds the value;
\* when it returns the slot holds the caller's value, every other slot is as
\* it was at the call, and head is one more than at the call
PushWrites ==
    /\ [][ProducerStep /\ prod.op = "push"
            => /\ tail' = tail
               /\ buffer' # buffer
                    => /\ \A i \in DOMAIN buffer : i # PushSlot => buffer'[i] = buffer[i]
                       /\ head' = head /\ head = prod.pre
               /\ head' # head
                    => /\ head' = Add(prod.pre, 1) /\ head = prod.pre
                       /\ buffer' = buffer
                       /\ buffer[PushSlot] = prod.value]_vars
    /\ [](PushSucceeded
            => /\ head = Add(prod.pre, 1)
               /\ buffer[PushSlot] = prod.value
               /\ \A i \in DOMAIN buffer : i # PushSlot => buffer[i] = harness.live[i + 1]
               /\ Len(pushed) = harness.k + 1)

\* C24: a successful push (head - tail < N) writes exactly one slot, slot
\* head & (N - 1), with the caller's value and then increases head by exactly
\* 1; its steps leave all other slots and tail unchanged; the slot written
\* lies outside the live window [tail, head) as it was before the call (a
\* call made with head - tail < N always succeeds), outside the window the
\* push found at its tail load, and outside the window of every moment of
\* the write.
C24_PushFrame ==
    /\ PushWrites
    /\ [](prod.op = "push" /\ prod.pc \in {"push_write", "push_writing", "push_store"}
            => /\ PushSlot \notin WindowAtLoad
               /\ \A p \in LiveWindow : BitAnd(p, Capacity - 1) # PushSlot)
    /\ [](harness.phase = "push" /\ prod.op = "push" /\ prod.pc = "idle"
          /\ harness.n < Capacity
            => PushSucceeded /\ PushSlot \notin WindowAtCall)

\* a push on a buffer of capacity 2 that held one element has returned true,
\* having reused a slot
C24_Witness ==
    /\ PushSucceeded
    /\ Capacity = 2 /\ harness.n = 1 /\ prod.pre >= 2
    /\ buffer[1 - PushSlot] = harness.live[2 - PushSlot]
    /\ buffer[1 - PushSlot] # Unset

\* what the stores of push, pop and remove do to the cursors: head changes
\* only in the head store of a push that returns true, by exactly 1; tail only
\* in the tail store of a pop that returns true, by exactly 1, or of a remove,
\* by exactly the count it returns; a push or pop that returns false and a
\* remove that returns 0 never reach their store
StoreSteps ==
    /\ head' # head
         => /\ ProducerStep /\ prod.pc = "push_store"
            /\ head' = Add(head, 1)
            /\ prod'.pc = "idle" /\ prod'.ret = "true"
    /\ tail' # tail
         => /\ ConsumerStep
            /\ \/ /\ cons.pc = "pop_store" /\ tail' = Add(tail, 1)
                  /\ cons'.pc = "idle" /\ cons'.ret = "true"
               \/ /\ cons.pc = "remove_store" /\ tail' = Add(tail, cons'.count)
                  /\ cons'.pc = "idle" /\ cons'.ret = "count"
    /\ ProducerStep /\ prod'.pc = "idle" /\ prod'.ret = "true" => head' # head
    /\ ConsumerStep /\ cons'.pc = "idle" /\ cons'.ret = "true" => tail' # tail
    /\ ProducerStep /\ prod'.pc = "idle" /\ prod'.ret = "false"
         => head' = head /\ tail' = tail /\ prod.pc # "push_store"
    /\ ConsumerStep /\ cons'.pc = "idle" /\ cons'.ret = "false"
         => head' = head /\ tail' = tail /\ cons.pc # "pop_store"
    /\ ConsumerStep /\ cons'.pc = "idle" /\ cons'.ret = "count" /\ cons'.count = 0
         => head' = head /\ tail' = tail /\ cons.pc # "remove_store"

\* the steps above, and what a caller finds when its call has returned
CursorStores ==
    /\ [][StoreSteps]_vars
    /\ [](/\ prod.pc = "idle" /\ prod.ret = "true" => head = Add(prod.pre, 1)
          /\ prod.pc = "idle" /\ prod.ret = "false" => head = prod.pre
          /\ cons.pc = "idle" /\ cons.ret = "true" => tail = Add(cons.pre, 1)
          /\ cons.pc = "idle" /\ cons.ret = "false" => tail = cons.pre
          /\ cons.pc = "idle" /\ cons.ret = "count" => tail = Add(cons.pre, cons.count)
          /\ cons.pc = "remove_store" => cons.n >= 1)

\* a cursor decreases only in a store that carries it past 2^w - 1, and the
\* distance head - tail modulo 2^w follows the amounts stored
WrapSteps ==
    /\ head' < head => head = Modulus - 1 /\ head' = 0
    /\ tail' < tail => tail + Sub(tail', tail) >= Modulus
    /\ head' # head => Sub(head', tail') = Sub(head, tail) + 1
    /\ tail' # tail => Sub(head', tail') = Sub(head, tail) - Sub(tail', tail)

\* C25 (as stated): cursor steps.  Between two calls of clear, head and tail
\* never decrease; every successful push raises head by exactly 1, every
\* successful pop raises tail by exactly 1, every remove raises tail by
\* exactly its return value, and a failed push / pop or a remove returning 0
\* performs no store to either cursor.
C25_CursorsNeverDecrease ==
    /\ CursorStores
    /\ [][head' >= head /\ tail' >= tail]_vars

\* C25 (amended): as above, the cursors being counted modulo 2^w: a cursor
\* decreases only in a store that carries it past 2^w - 1, and then to the
\* sum modulo 2^w; the distance head - tail modulo 2^w grows by 1 with every
\* successful push and shrinks by 1 or by the count returned with every
\* successful pop or remove.
C25_CursorSteps ==
    /\ CursorStores
    /\ [][WrapSteps]_vars

\* remove(2) has carried tail past the largest cursor value to 0, after the
\* pushes had carried head past it
C25_Witness ==
    /\ cons.op = "remove" /\ cons.pc = "idle" /\ cons.count = 2
    /\ cons.pre = Modulus - 2 /\ tail = 0
    /\ head < cons.pre

\* a step of the consumer inside remove
RemoveStep == ConsumerStep /\ cons.op = "remove"

\* what the steps of remove do: no slot and no head_ is written; the count
\* decided at the head load is at most n and at most the elements then in the
\* buffer; the tail store adds that count, which is still at most the
\* elements in the buffer
RemoveWrites ==
    /\ RemoveStep => buffer' = buffer /\ head' = head
    /\ RemoveStep /\ cons.pc \in {"remove_load_tail", "remove_load_head"} => tail' = tail
    /\ RemoveStep /\ cons.pc = "remove_load_head"
         => LET decided == IF cons'.pc = "idle" THEN cons'.count ELSE cons'.n
            IN  /\ decided <= Sub(head, tail)
                /\ decided <= cons.n
                /\ cons'.pc = "idle" <=> decided = 0
    /\ RemoveStep /\ cons.pc = "remove_store"
         => /\ cons'.pc = "idle" /\ cons'.count = cons.n
            /\ cons.n <= Sub(cons.head, cons.tail)
            /\ cons.n <= Sub(head, tail)
            /\ tail' = Add(tail, cons.n)
            /\ Sub(head', tail') = Sub(head, tail) - cons.n

\* C26: remove(n) never writes a slot and never writes head, also when the
\* producer pushes concurrently; the count it returns never exceeds the
\* number of elements that were in the buffer at the moment it loaded head,
\* so tail never passes head.
C26_RemoveFrame ==
    /\ [][RemoveWrites]_vars
    /\ [](/\ Sub(head, tail) <= Capacity
          /\ cons.pc = "remove_store"
               => /\ cons.tail = tail
                  /\ Sub(cons.head, cons.tail) <= Sub(head, tail)
                  /\ cons.n >= 1 /\ cons.n <= MaxRemove)

\* a remove of two elements is about to store tail while the producer, having
\* published another element since the remove loaded head, writes a slot
C26_Witness ==
    /\ cons.op = "remove" /\ cons.pc = "remove_store" /\ cons.n = 2
    /\ head # cons.head
    /\ prod.pc = "push_writing"

\* thread t of the step calls notify_one on the condition of thread other
Notifies(t, next, other, next_other) ==
    /\ t.op \in {"push_wait", "pop_wait"} /\ t.pc = "notify" /\ next.pc = "idle"
    /\ next_other = NotifyOne(other)

\* what a step of thread t (next after it) in push_wait / pop_wait does about
\* notify_one, own being t's cursor and other the opposite thread
SignalSteps(t, next, name, own, other, next_other, store) ==
    /\ next.pc = "notify" => t.pc \in {store, "stats"} /\ next.succ = 1
    /\ t.pc = "notify"
         => /\ Notifies(t, next, other, next_other)
            /\ t.succ = 1 /\ own = Add(t.pre, 1)
            /\ cv_mutex # name /\ cv_mutex' = cv_mutex
    /\ next.pc = "idle" => t.pc = "notify"
    /\ t.pc # "notify" => next_other = other

\* C27: signal after publish.  Every push_wait call issues exactly one
\* notify_one on the 'not empty' condition: as its last step before it
\* returns, after its one successful push has stored the new head, and
\* without holding the mutex; every pop_wait call issues exactly one
\* notify_one on 'not full' after its successful pop has stored the new tail,
\* likewise outside the mutex; no step of a failed attempt, of the spin phase
\* or of the condition-wait notifies, and a blocked thread is woken only by
\* the notify_one of the opposite thread or spuriously.
C27_SignalAfterPublish ==
    [][/\ ProducerStep /\ prod.op = "push_wait"
          => SignalSteps(prod, prod', "prod", head, cons, cons', "push_store")
       /\ ConsumerStep /\ cons.op = "pop_wait"
          => SignalSteps(cons, cons', "cons", tail, prod, prod', "pop_store")
       /\ cons.pc = "blocked" /\ cons'.pc # "blocked"
          => /\ cons'.pc = "woken"
             /\ prod' = prod \/ Notifies(prod, prod', cons, cons')
       /\ prod.pc = "blocked" /\ prod'.pc # "blocked"
          => /\ prod'.pc = "woken"
             /\ cons' = cons \/ Notifies(cons, cons', prod, prod')
      ]_vars

\* a push_wait has returned and the consumer, which had blocked in pop_wait on
\* the empty buffer, is woken with one element to pop
C27_Witness ==
    /\ prod.op = "push_wait" /\ prod.pc = "idle" /\ prod.ret = "void"
    /\ cons.op = "pop_wait" /\ cons.pc = "woken" /\ cons.blocks = 1
    /\ head = Add(tail, 1) /\ tail >= 1

\* C28: no mutual block.  With the producer calling only push_wait and the
\* consumer only pop_wait, no reachable state has the producer blocked in the
\* condition-wait on 'not full' and the consumer blocked in the
\* condition-wait on 'not empty' at the same time.
C28_NoMutualBlock ==
    ~(/\ prod.op = "push_wait" /\ prod.pc = "blocked"
      /\ cons.op = "pop_wait" /\ cons.pc = "blocked")

\* thread t has left its condition-wait and not yet completed an attempt
AfterWait(t) ==
    /\ t.op \in {"push_wait", "pop_wait"}
    /\ \/ t.pc = "unlock"
       \/ /\ t.pc \in {"push_load_head", "push_load_tail", "pop_load_tail", "pop_load_head"}
          /\ t.local_spins = 0 /\ t.fails >= 1

\* how thread t (next after the step) leaves the slow path: only from the
\* predicate evaluated true under the mutex; a predicate evaluated false leads
\* into the wait, and a wake-up leads to the predicate again
LeavesWait(t, next, name, holds) ==
    /\ next.pc = "unlock" => t.pc = "pred_load_tail" /\ holds /\ cv_mutex = name
    /\ t.pc = "pred_load_tail" /\ ~holds => next.pc = "wait" /\ cv_mutex' = name
    /\ t.pc = "woken" => next.pc = "pred_load_head" /\ cv_mutex' = name
    /\ t.pc \in SlowPath /\ next.pc \notin SlowPath
         => t.pc = "unlock" /\ next.local_spins = 0
    /\ AfterWait(t) /\ next.pc \notin {"unlock", "push_load_head", "push_load_tail",
                                        "pop_load_tail", "pop_load_head"}
         => next.pc \in {"push_write", "pop_read"} /\ next.fails = t.fails

\* the steps of the two threads inside push_wait and pop_wait
WaitSteps ==
    /\ ProducerStep /\ prod.op = "push_wait"
         => LeavesWait(prod, prod', "prod", ~IsFullOf(prod.q_head, tail, Capacity))
    /\ ConsumerStep /\ cons.op = "pop_wait"
         => LeavesWait(cons, cons', "cons", ~IsEmptyOf(cons.q_head, tail))

\* C29: wake-up is sufficient.  The condition-wait of push_wait is left only
\* after the predicate !isFull() was evaluated true under the mutex (a
\* spurious wake-up on a still-full buffer re-enters the wait), and the first
\* push attempt after leaving the wait always succeeds; symmetrically the
\* first pop attempt after pop_wait leaves its wait on !isEmpty() always
\* succeeds; hence no call takes the mutex a second time.
C29_WakeUpSufficient ==
    /\ [][WaitSteps]_vars
    /\ [](/\ prod.op = "push_wait" /\ AfterWait(prod) => Sub(head, tail) < Capacity
          /\ cons.op = "pop_wait" /\ AfterWait(cons) => head # tail
          /\ prod.pc = "lock" => prod.blocks = 0 /\ prod.fails = prod.local_spins
          /\ cons.pc = "lock" => cons.blocks = 0 /\ cons.fails = cons.local_spins)

\* the producer, woken spuriously on the full buffer, had re-entered the
\* wait; woken again it has left the wait and is inside its next push attempt
C29_Witness ==
    /\ prod.op = "push_wait" /\ prod.pc = "push_load_tail" /\ AfterWait(prod)
    /\ prod.blocks = 2
    /\ cons.op = "pop_wait" /\ cons.pc = "idle"

\* the step in which a status query called by the producer thread or by the
\* consumer thread loads tail and returns
OwnQueryReturns ==
    /\ obs.pc = "query_load_tail" /\ obs'.pc = "idle"
    /\ obs.who \in {"prod", "cons"}

\* <<head, tail>> at the instant of the first load of the query: the cursors
\* have only grown since
FirstLoad ==
    CHOOSE pair \in obs.seen :
        \A other \in obs.seen : pair[1] <= other[1] /\ pair[2] <= other[2]

\* what the claim says of size() and isFull(): size() is in 0..N, and isFull()
\* is true only if the buffer holds N elements at the second load
OwnSizeAndFull ==
    /\ obs.op = "size" => obs'.count \in 0 .. Capacity
    /\ obs.op = "isFull" /\ obs'.flag => Sub(head, tail) = Capacity

\* C30 (as stated): when size(), isFull() or isEmpty() is called by the
\* producer thread or by the consumer thread itself while the opposite thread
\* runs, size() returns a value in 0..N, isFull() returns true only if the
\* buffer held N elements at the instant of the second load, and isEmpty()
\* returns true only if the buffer was empty at the instant of the first load.
C30_OwnQueriesFirstLoad ==
    [][OwnQueryReturns
        => /\ OwnSizeAndFull
           /\ obs.op = "isEmpty" /\ obs'.flag => FirstLoad[1] = FirstLoad[2]]_vars

\* C30 (amended): as above for size() and isFull(); isEmpty() returns true
\* only if the buffer was empty at the instant of the first load when the
\* consumer thread calls it, and at the instant of the second load when the
\* producer thread calls it.  A query of the producer thread returns exactly
\* what holds at its second load, a query of the consumer thread exactly what
\* held at its first load.
C30_OwnQueries ==
    [][OwnQueryReturns
        => /\ OwnSizeAndFull
           /\ obs.op = "isEmpty" /\ obs'.flag /\ obs.who = "cons"
                => FirstLoad[1] = FirstLoad[2]
           /\ obs.op = "isEmpty" /\ obs'.flag /\ obs.who = "prod" => head = tail
           /\ obs.who = "prod" => AnswerFor(obs', head, tail)
           /\ obs.who = "cons" => AnswerFor(obs', FirstLoad[1], FirstLoad[2])]_vars

\* isEmpty() called by the producer thread has returned true, the consumer
\* having popped the last element between the two loads of the query
C30_Witness ==
    /\ obs.pc = "idle" /\ obs.op = "isEmpty" /\ obs.who = "prod" /\ obs.flag
    /\ Cardinality(obs.seen) = 2
    /\ head = tail /\ head >= 1

\* the number of elements ever pushed and ever popped, as integers that do
\* not wrap
PushedEver == harness.at + Len(pushed)
PoppedEver == harness.at + Len(popped)

\* the attempt of a push or a pop decides between full / empty and proceeding:
\* it reports full exactly when N elements are held, empty exactly when none is
DetectSteps ==
    /\ prod.pc = "push_load_tail" /\ prod'.pc # prod.pc
            => (prod'.ret = "false" <=> Len(pushed) - Len(popped) = Capacity)
    /\ cons.pc = "pop_load_head" /\ cons'.pc # cons.pc
            => (cons'.ret = "false" <=> Len(pushed) = Len(popped))

\* what holds of the cursors in every state, before and after they wrap
WrapState ==
    /\ head = PushedEver % Modulus
    /\ tail = PoppedEver % Modulus
    /\ Sub(head, tail) = Len(pushed) - Len(popped)
    /\ Sub(head, tail) \in 0 .. Capacity
    /\ SlotIndex(head, Capacity) = PushedEver % Capacity
    /\ SlotIndex(tail, Capacity) = PoppedEver % Capacity
    /\ SlotIndex(Add(head, 1), Capacity) = (SlotIndex(head, Capacity) + 1) % Capacity
    /\ SlotIndex(Add(tail, 1), Capacity) = (SlotIndex(tail, Capacity) + 1) % Capacity
    /\ IsPrefix(popped, pushed)
    /\ prod.pc \in {"push_write", "push_writing", "push_store"}
            => Len(pushed) - Len(popped) < Capacity
    /\ cons.pc \in {"pop_read", "pop_reading", "pop_store"}
            => Len(pushed) > Len(popped)

\* C31: counter wrap-around.  With cursors that wrap modulo 2^w and a
\* power-of-two capacity N < 2^w, after head and later tail overflow past
\* 2^w - 1 the occupancy head - tail computed modulo 2^w is the number of
\* elements held and lies in 0..N, full and empty are detected exactly, the
\* slot indices continue the same cyclic sequence, and the values popped are
\* a prefix of the values pushed.
C31_WrapAround == []WrapState /\ [][DetectSteps]_vars

\* both cursors have wrapped, the buffer is full again and a push has just
\* been refused
C31_Witness ==
    /\ harness.phase = "wrap"
    /\ PoppedEver >= Modulus
    /\ Sub(head, tail) = Capacity
    /\ prod.pc = "idle" /\ prod.ret = "false"
    /\ Len(popped) >= 1

\* successful pushes minus successful pops minus the sum of the values remove
\* returned, counted since construction or the last clear
Accounted ==
    (Len(pushed) - harness.pushes) - (Len(popped) - harness.pops) - harness.removed

\* size() returns with no other operation in flight
QuiescentSize ==
    /\ obs.pc = "query_load_tail" /\ obs.op = "size" /\ obs'.pc = "idle"
    /\ prod.pc = "idle" /\ cons.pc = "idle" /\ harness.phase = "run"

SizeSteps == QuiescentSize => obs'.count = Accounted

\* C32: occupancy accounting.  In every quiescent state size() equals the
\* number of successful pushes (push or push_wait) minus the number of
\* successful pops (pop or pop_wait) minus the sum of all remove return
\* values, counted since construction or the last clear.
C32_OccupancyAccounting ==
    /\ [](Quiescent => SizeOf(head, tail) = Accounted /\ Accounted \in 0 .. Capacity)
    /\ [][SizeSteps]_vars

\* size() has returned 1 in a quiescent state: since the last clear three
\* pushes were accepted, an element was popped and one removed
C32_Witness ==
    /\ Quiescent
    /\ obs.op = "size" /\ obs.count = 1
    /\ harness.pushes >= 1 /\ harness.removed = 1
    /\ Len(popped) = harness.pops + 1
    /\ Len(pushed) = harness.pushes + 3

\* the call of thread t has gone into the slow path: with the counters
\* supplied, it has incremented block_counter
WentToWait(t, name) == block_counter[name] # t.pre_block

\* the failed attempts of the call of t since it began or since its
\* condition-wait returned: the failed attempts all come before the wait
\* (FailsBeforeWait), so that none is left once the wait was entered
FailsSinceWake(t, name) == IF WentToWait(t, name) THEN 0 ELSE t.fails

Largest(a, b) == IF a >= b THEN a ELSE b

SpinsAdded(t, name) ==
    CallDone(t) =>
        /\ spin_counter[name] - t.pre_spin = FailsSinceWake(t, name)
        /\ spin_counter[name] - t.pre_spin < Largest(t.spin_limit, 1)
        /\ WentToWait(t, name) => t.fails = Largest(t.spin_limit, 1)

\* an attempt of a push_wait / pop_wait call fails only before the call has
\* gone into its condition-wait: the attempt after the wait succeeds
FailsBeforeWait ==
    /\ prod'.fails > prod.fails => ~WentToWait(prod, "prod") /\ prod.blocks = 0
    /\ cons'.fails > cons.fails => ~WentToWait(cons, "cons") /\ cons.blocks = 0

\* C33: amount added to spin_counter.  On return, a push_wait / pop_wait call
\* has added to spin_counter exactly the number of failed attempts it made
\* since the call began or since its most recent wake-up from a
\* condition-wait (the failed attempts made before a block are discarded by
\* the reset), and this amount is smaller than max(spin_limit, 1).
C33_SpinsAdded ==
    /\ [](SpinsAdded(prod, "prod") /\ SpinsAdded(cons, "cons"))
    /\ [][FailsBeforeWait]_vars

\* a push_wait with spin_limit 1 failed once, blocked, was woken and succeeded:
\* it adds nothing to the counter that an earlier call had raised
C33_Witness ==
    /\ CallDone(prod)
    /\ prod.fails = 1 /\ prod.blocks = 1 /\ prod.spin_limit = 1
    /\ spin_counter["prod"] = prod.pre_spin
    /\ spin_counter["prod"] >= 1

\* the values push accepted (returned true for)
Accepted == {pushed[i] : i \in DOMAIN pushed}

\* the values the buffer holds for a consumer: the slots of the live window
Held == {buffer[SlotIndex(p, Capacity)] : p \in LiveWindow}

\* neither producer is inside push
NoPushInFlight == prod.pc = "idle" /\ cons.pc = "idle"

\* the number of accepted values that head - tail does not account for
Deficit == Len(pushed) - Sub(head, tail)

\* the two producers called push with head at the same value, both calls
\* returned true and head stands one above that value; no accepted value had
\* been lost before
BothAccepted ==
    /\ NoPushInFlight
    /\ prod.op = "push" /\ cons.op = "push"
    /\ prod.ret = "true" /\ cons.ret = "true"
    /\ prod.pre = cons.pre
    /\ head = Add(prod.pre, 1)
    /\ Deficit = 1

\* C34: violation of the single-producer rule is unsafe and undetected.  With
\* two threads executing push concurrently on a non-full buffer, whenever both
\* calls have returned true while head has advanced by only one, the slot holds
\* at most one of the two accepted values and the other is in no slot: an
\* accepted value is lost.  With no push in flight, head - tail never exceeds
\* the number of accepted values, every slot of the live window holds an
\* accepted value or the remains of a data race, and at least as many
\* accepted values are lost as head - tail falls short of their number.
C34_TwoProducersLoseValues ==
    /\ NoPushInFlight =>
          /\ Held \subseteq Accepted \cup {Torn}
          /\ Deficit >= 0
          /\ Cardinality(Accepted \ Held) >= Deficit
    /\ BothAccepted =>
          /\ Len(pushed) >= 2
          /\ ~({prod.value, cons.value} \subseteq Held)
          /\ buffer[SlotIndex(prod.pre, Capacity)] \in {prod.value, cons.value, Torn}

\* both calls have returned true on the empty buffer of capacity 2, head is 1
\* and slot 0 holds the value of the second producer: the first producer's
\* value was accepted and is lost
C34_Witness ==
    /\ BothAccepted
    /\ Capacity = 2
    /\ prod.pre = 0 /\ head = 1 /\ tail = 0
    /\ Len(pushed) = 2
    /\ buffer[0] = cons.value
    /\ prod.value \in Accepted /\ prod.value \notin Held

\* what the claim says the probe prints on Linux: the sysfs value if positive,
\* else the CPUID value if non-zero, else the compile-time default
LinuxLineSize(m) ==
    LET sysfs == IF m.file.readable THEN m.file.value ELSE 0
        cpuid == IF m.x86 THEN 8 * m.clflush ELSE 0
        default == IF m.builtin = 0 THEN 64 ELSE m.builtin
    IN  IF sysfs > 0 THEN sysfs ELSE IF cpuid > 0 THEN cpuid ELSE default

\* the probe was compiled, ran and exited with code 0
ProbeSucceeded == harness.COMPILE_RESULT /\ harness.RUN_RESULT_CODE = "0"

\* C35: cache-line-size fallback.  The CACHE_LINE_SIZE seen by the header is
\* 64 whenever the build-time probe fails to compile or exits with a non-zero
\* code, and whenever no value is injected at all; when the probe runs
\* successfully the value it printed is used; on Linux the probe prints the
\* sysfs value if positive, else the CPUID value if non-zero, else its
\* compile-time default, and so never prints 0.
C35_LineSizeFallback ==
    /\ harness.phase \in {"tried", "processed"} /\ ProbeSucceeded =>
          /\ MacroValue(harness.DETECTED_CACHE_LINE_SIZE) = LinuxLineSize(harness.machine)
          /\ harness.DETECTED_CACHE_LINE_SIZE # <<0>>
    /\ harness.phase = "built" =>
          /\ harness.build = "direct" => harness.CACHE_LINE_SIZE = 64
          /\ harness.build = "cmake" /\ ~ProbeSucceeded => harness.CACHE_LINE_SIZE = 64
          /\ harness.build = "cmake" /\ ProbeSucceeded =>
                /\ harness.CACHE_LINE_SIZE = LinuxLineSize(harness.machine)
                /\ harness.CACHE_LINE_SIZE > 0

\* the header was compiled with the CPUID value 16: sysfs held 0 and the
\* probe ran successfully
C35_Witness ==
    /\ harness.phase = "built" /\ harness.build = "cmake"
    /\ ProbeSucceeded
    /\ harness.machine.file.readable /\ harness.machine.file.value = 0
    /\ harness.machine.clflush = 2
    /\ harness.CACHE_LINE_SIZE = 16

\* thread t (next after the step) has made a failed attempt in a wait call:
\* it yields exactly when its count of failed attempts has become a non-zero
\* multiple of 1024 below spin_limit, and goes to block, without yielding,
\* exactly when the count has reached spin_limit
YieldCadence(t, next) ==
    next.fails # t.fails /\ next.op \in {"push_wait", "pop_wait"} =>
        /\ next.fails = t.fails + 1
        /\ next.local_spins = next.fails
        /\ next.yields = t.yields + 1
             <=> /\ next.fails > 0
                 /\ next.fails % 1024 = 0
                 /\ next.fails < next.spin_limit
        /\ next.yields \in {t.yields, t.yields + 1}
        /\ next.pc = "lock" <=> next.fails >= next.spin_limit
        /\ next.pc = "lock" => next.yields = t.yields

\* the yields of a call change in no other step than a failed attempt
YieldSteps ==
    /\ YieldCadence(prod, prod')
    /\ YieldCadence(cons, cons')
    /\ prod'.yields # prod.yields => prod'.fails # prod.fails
    /\ cons'.yields # cons.yields => cons'.fails # cons.fails

NeverYields(t) ==
    t.op \in {"push_wait", "pop_wait"} /\ t.spin_limit <= 1024 => t.yields = 0

\* C36: yield cadence.  During the spin phase push_wait / pop_wait yield the
\* processor exactly when the local count of failed attempts is a non-zero
\* multiple of 1024 and still below spin_limit; hence with spin_limit <= 1024
\* a call never yields, and a failed attempt that reaches spin_limit blocks
\* instead of yielding.
C36_YieldCadence ==
    /\ [](NeverYields(prod) /\ NeverYields(cons))
    /\ [][YieldSteps]_vars

\* a pop_wait with spin_limit 2048 yielded at its 1024th failed attempt and
\* went to block, without a second yield, at its 2048th
C36_Witness ==
    /\ cons.op = "pop_wait" /\ cons.pc = "blocked"
    /\ cons.spin_limit = 2048
    /\ cons.fails = 2048
    /\ cons.yields = 1

\* the cursor values
Cursors == 0 .. Modulus - 1

\* C37: mask indexing.  For every capacity N accepted by the construction
\* check and every cursor value c, the slot index c & (N - 1) lies in 0..N-1
\* and equals c mod N, so that consecutive cursor values visit the N slots
\* cyclically.
C37_MaskIndexing ==
    harness.phase = "free" =>
        \A c \in Cursors :
            /\ SlotIndex(c, Capacity) \in 0 .. Capacity - 1
            /\ SlotIndex(c, Capacity) = c % Capacity
            /\ SlotIndex(Add(c, 1), Capacity) = (SlotIndex(c, Capacity) + 1) % Capacity

-----------------------------------------------------------------------------
(* Progress of the wait layer *)

\* C3: wait-layer progress.  With the producer calling only push_wait and the
\* consumer only pop_wait, the consumer asking for as many elements as the
\* producer supplies, every call in flight eventually returns when both
\* threads are scheduled fairly.
C3_WaitProgress ==
    /\ (prod.pc # "idle") ~> (prod.pc = "idle")
    /\ (cons.pc # "idle") ~> (cons.pc = "idle")

\* C4: wake-up by a plain pop.  Once the producer is blocked in the
\* condition-wait of push_wait on a full buffer and the consumer has completed
\* one successful pop(), the push_wait call eventually returns.
C4_WakeByPop ==
    (/\ prod.op = "push_wait" /\ prod.pc = "blocked"
     /\ cons.op = "pop" /\ cons.pc = "idle" /\ cons.ret = "true")
        ~> (prod.op = "push_wait" /\ prod.pc = "idle")

====
